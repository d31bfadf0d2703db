# A TLA+ verification of AI-MORPHASIS

This directory holds TLA+ models of the multi-agent task system in
`src/agents/` and of the services around it, TLC configurations that check them
on small instances, and theorems that TLAPS checks for every value of the constants. Paths below are
relative to the repository root.

1. [The system](#1-the-system) - the inventory of its parts
2. [The models](#2-the-models) - modules and how they correspond to the code
3. [Runs](#3-runs) - what TLC checks, with which bounds
4. [Fairness](#4-fairness)
5. [Proofs](#5-proofs)
6. [Findings](#6-findings)
7. [Limits](#7-limits) - what is only checked, what is not modelled
8. [Plan](#8-plan)

## 1. The system

### The task system (`src/agents/`)

| Part | State | Operations | Talks to |
|---|---|---|---|
| `Task` (`models.py`) | `status`, `assigned_to`, `retry_count`, `next_retry_at`, `metadata`, `error`, `dependencies` | `transition_to` over `TASK_STATUS_TRANSITIONS`, the `mark_*` wrappers | written by agents and system |
| `BaseAgent` (`base.py`) | `status`, `active_tasks`, `performance_metrics`, `memory`, a lock of its own | `assign_task`, `execute_task` (think, act, boundary checks, error paths), `_force_task_status` | writes its tasks |
| `OrchestratorAgent`, `ExecutorAgent`, ... (`specialized.py`) | `managed_agents` | `distribute_task`, `_select_best_agent`; `think`, `act` | reads agents without a lock, calls `assign_task` |
| `AgentSystem` (`system.py`) | `agents`, `task_registry`, `global_task_queue` with `_queued_task_ids`, `completed_tasks` with `_completed_task_ids`, `system_metrics`, a lock of its own | `add_agent`, `remove_agent`, `create_task`, `submit_task`, `execute_task`, `cancel_task`, `dispatch_pending_tasks`, `process_retry_queue`, `run_once` | calls the orchestrator and agents; calls hooks and sinks |
| Scheduler (`runtime.py`) | a stop event | `run_forever`: `run_once` until stopped | AgentSystem |
| `AgentMemory` (`models.py`) | episodic memory with a limit, semantic and procedural memory without | `store_episode` with eviction of the oldest, `store_semantic`, `retrieve` | called by `assign_task` of its agent |
| Repositories (`persistence.py`, `persistence_factory.py`) | the stored tasks, an index of them (Redis), a connection pool (SQL) | `save_task`, `get_task`, `list_*`, `delete_task` in memory, SQL, Redis | called from the persistence hook |
| Event stores (`events.py`) | event lists, one for all and one per task; in SQL a table | `append`, `get_all_events`, `get_events_for_task`, trimming (Redis) | called from telemetry sinks |
| Shim (`super_agentic_agents.py`, `__init__.py`) | the exported names (`globals()`, `__all__`), `_import_errors`, `_IMPORT_COMPLETE` | startup: import, validate; lookup of a missing name | Python's import system |

**How they interact.** `create_task` puts a task in the registry and the queue.
A scheduler thread calls `run_once`: `dispatch_pending_tasks` snapshots the
queue, sorts the copy and calls `submit_task` for each task whose dependencies
have completed; `process_retry_queue` does the same for the tasks that wait for
a retry. `submit_task` lets the orchestrator choose an agent, calls its
`assign_task`, and only then takes the task off the queue. A worker thread
calls `execute_task`, which runs `think` and `act` outside of all locks, moves
the task to its outcome and accounts for it (or queues the retry). Any thread
may cancel.

**What is hard.** There are two kinds of locks, the system's and one per agent,
and no operation holds both: submission, execution and cancellation
are sequences of separate critical sections. What one section read may be stale
in the next. `task.status` and `task.retry_count` are guarded by neither: `cancel_task`
writes the status under the system's lock, `assign_task` and `execute_task` under an
agent's, so that a status may change between the look at the transition table and the write. The
orchestrator iterates over its agents without a lock. `think` and `act` end in a result, an exception, a timeout or a
cancellation. The handlers of all of these may be refused by the transition
table and raise out of themselves. Retries are counted, delayed and queued again. A
dependency may fail. Agents may be removed or suspended while tasks are on them.

**What makes it correct.**
- Lifecycle: a task follows the transition table; a terminal status is final; retries
  stay within `max_retries`. The code keeps this where one thread at a time moves a task,
  and in a weaker form whatever is called: see [what the runs show](#3-runs).
- Queue: every waiting task is queued exactly once; nothing is lost or duplicated.
- Ownership: a task is active on one agent, and a RUNNING task has a thread that will end it.
- Order: a task starts after its dependencies.
- Accounting: success and failure are counted once per task.
- Agents: IDLE again after every outcome, capacity given back.
- Progress: a ready task ends.
- References: no agent has a parent or a peer that is not registered.
- Stores: what a call has acknowledged is found afterwards, by every thread and after a
  restart, with the values it was given; what is forgotten is the oldest.
- Shim: the names are there all together or not at all, and its flags say which.

### The rest of the repository

| Part | State and operations | Correct when |
|---|---|---|
| Experience replay (`src/models/neural_network.py`) | list that becomes a circle, `position`; `add`, `sample` | holds the latest `max_size` entries |
| Training loop (`src/training/train.py`) | the environment's state and step counter, the replay buffer and `total_steps`, shared by `collect_experience`, `train_episode`, `evaluate` | no step after the end of an episode; the buffer holds episodes without gaps; the target network keeps up |
| Learning model (`src/models/neural_network.py`) | network and target network; `train_step`, `update_target_network` | every update comes due, for each model type |
| Preprocessing (`src/data/preprocessing.py`) | the batch generator's order and position; splits and sliding windows, which are pure; normalisation | every sample once per epoch, a partition, the right number of windows |
| Configuration (`src/config/model_config.py`) | static tables | - |
| Ghost modal (`agents/cerribro/ghost_modal.py`) | mode, toolboxes, audit trail; `evaluate`, `execute`, `register_tool` | the audit trail explains every mode |
| HTTP service (`app/main.py`) | none; health endpoints | - |
| CI reasoning check (`.github/scripts/run_ai_reasoning.py`) | none; text heuristics, run once over fixtures written in the script | - |
| Infrastructure (`infrastructure/`), profiles, docs | declarative | - |

## 2. The models

| Module | Models | About |
|---|---|---|
| `TaskModel` | `TaskStatus`, `TASK_STATUS_TRANSITIONS` | data shared by all |
| `TaskLifecycle` | a task as its owner sees it | the abstract specification: what is checked before a status is written, and what may happen in between |
| `AgentSystem` | `system.py`, `base.py`, the orchestrator's choice, `run_once` | the core: all threads, one action per critical section, several where a status is read and written |
| `StatusRace` | `transition_to` and its callers at the grain of single reads and writes of `task.status` | cancellation against execution alone, at the finest grain |
| `MCAgentSystem` | - | small instances for TLC |
| `AgentSystemProofs` | - | theorems about `AgentSystem` that hold for every use of it |
| `ExecutionProofs` | - | theorems about its executions: retries, ownership, dependencies, success, failure |
| `TaskRepository` | `RedisTaskRepository`, as the persistence hook calls it | saving, expiry, deletion and listing, step by step |
| `TaskRepositoryProofs` | - | theorems about `TaskRepository` |
| `ReplayWindow` | what a replay buffer is for | the abstract specification: the latest `max_size` experiences in order |
| `ReplayBuffer` | `ExperienceReplay` | the list that becomes a circle |
| `Training` | `TrainingEnvironment`, `AgentTrainer`, the updates of `AgentLearningModel` | the calls that share one environment, composed with `ReplayBuffer` |
| `TrainingProofs` | - | theorems about `ReplayBuffer` and `Training` |
| `SqlStore` | the transactions of `SqlTaskRepository` and `SqlEventStore` | one connection for all threads, or one for each |
| `TaskRecords` | `_serialize` and `_deserialize` of both durable repositories | a task that goes on after restarts |
| `EventStore` | the three event stores and their factory | trimming, lost answers, restarts |
| `AgentMemory` | `AgentMemory` | eviction from the bounded episodic memory |
| `AgentRegistry` | `add_agent`, `remove_agent` with all they clean up | references between agents, the counter |
| `GhostModal` | `GhostModal` | tools that change the mode they run in |
| `ShimStartup` | `super_agentic_agents.py` | startups of a shim over a package that changes |
| `Preprocessing` | `BatchGenerator`, `split_data`, `create_sliding_window` | epochs, partitions, windows |
| `MCServices` | - | these eight and `StatusRace` side by side, for TLC |
| `StorageProofs` | - | theorems about `SqlStore`, `TaskRecords` and `EventStore` |
| `AgentProofs` | - | theorems about `AgentMemory`, `AgentRegistry`, `GhostModal` and `StatusRace` |
| `ShimStartupProofs`, `PreprocessingProofs` | - | theorems about `ShimStartup` and `Preprocessing` |

Each of these modules carries faulty variants of a few definitions (`QueueAlways`, `KeepActive`, ...),
marked as such. No action uses them. Substituted for the definition they are
variants of, each breaks a property: they show that the properties are about the code.

### `AgentSystem`

*State.* Attributes of a task are functions on `Tasks` (`status`, `assignedTo`,
`retries`, `retryDue`, `cancelRequested`, `error`, `deps`, `born`). `born` is the
rank of `created_at`, and 0 for a task not created yet. `queued` and `completed` give
the number of entries of a task in the two lists: their order has no effect,
since dispatching sorts its copy by priority and age and retrying is
modelled as taking any order. `queuedIds` and `completedIds` are the sets that guard the lists against
duplicates. `active` and `agentStatus` are the agents' `active_tasks` and `status`.
`worker` and `submitter` are the threads inside `execute_task` and inside
`submit_task` or `run_once`, with a program counter and the locals they still use; `canceller` is the
one inside `cancel_task` - one, since it has the system's lock.

*Grain.* One action is one `with lock` block, or the code between two of them, if all that the block reads
and writes is guarded by its lock. `status` and `retry_count` are not. A block that writes one of them is cut
between each read of it and the write: the look at the table in `transition_to` is `AssignCheck`, `Check` or `CancelCheck`, the
assignment `AssignWrite`, `Write` or `CancelWrite`; the handler's comparison of `retry_count` is `Handle`, its increment `Spend`. The thread
keeps the lock meanwhile: `AgentFree(a)` and `SystemFree` say that nobody is in the middle of such a block, and every
other action that takes the lock waits for it. Other locks' blocks do come in between. Blocks that read a status once are one action.
The `+=` of the counters in `system_metrics` is one step, under the system's lock.

| Code | Actions |
|---|---|
| `create_task`, `add_agent`, `remove_agent` | `CreateTask`; `AddAgent`; `RemoveAgent` |
| `cancel_task` | `Cancel` (to the decision), `RequestCancel`; `CancelCheck`, `CancelWrite` |
| `run_once`, `dispatch_pending_tasks`, `process_retry_queue` | `DispatchSnapshot`, `NextCandidate` per task, `EndOfSnapshot` |
| `submit_task`, `distribute_task` | `ClientSubmit` (a call of its own), `ChooseAgent` (no lock), `Dequeue` (system's lock) |
| `assign_task` | `Assign`, `AssignCheck`, `AssignWrite`, `Record`: one block of the agent's lock |
| `AgentSystem.execute_task` | `ExecuteCall` and `Aggregate`, before and after `BaseAgent.execute_task` |
| `BaseAgent.execute_task` | `Enter` or `Resume`, and `Check`, `Write` (to the first release of the lock); `Run` (think, act and the boundary checks); `Complete`, `Write`, `Settle` (success); `Handle`, `Spend`, `Test`, `Check`, `Write`, `Settle` (the except block); `Finally` |
| time | `RetryComesDue` |

*What raises.* `managed_agents` is a dictionary that `_select_best_agent` iterates over without a lock, while `add_agent` and
`remove_agent` change its size: the iteration of any thread that is in the middle of it (`Selecting`) may raise (`ResizeManaged`). `store_episode`
raises on an agent whose memory holds nothing (`NoMemory`), after the task has become ASSIGNED and active, and
before it is taken off the queue. Nothing catches either: the exception leaves `submit_task`, `run_once` and `run_forever`, so that a scheduler
is `"stopped"` (`Raise`), and a client's call is over.

*Data that is abstracted.* Payloads, results, capabilities (`Capable` says which agents
match), backoff lengths (`retryDue`), the reason of an error, agents' metrics, history and memory,
durations, telemetry. `think` and `act` may end in an exception or a timeout at any
moment. Adjacent boundary checks are one: a cancellation that an earlier check would see
is seen by a later one too, and a task that got past the last one is past all of
them. A custom `cancellation_check` may fire for the tasks in `HookCancels`.
The persistence hook and the event sinks catch every exception and return
nothing to the system, so they change none of this state. `ChooseAgent` looks at all agents
in one step, where the code looks at one after the other: apart from the iteration that raises, this affects only which of the
agents that were available is chosen, and `Assign` checks it again. An agent that is in no
`Capable[t]` is reached by a direct submission only, as the orchestrator itself is.

*The environment.* `FreeCalls = TRUE` lets any worker call `execute_task` for any task
on any registered agent at any time. `FALSE` is the intended use, as in the
examples and tests: a worker executes a task that is active on its
agent and that no other worker executes. `Clients` are threads that call
`submit_task` themselves. Suspending an agent is an operator's assignment to its
`status`: no code does it, but `BaseAgent` and the orchestrator read it.

### `StatusRace`

`StatusRace` has one task, workers and cancellers, and no agents, queue or submission. It
steps through each read and write of `task.status`, those included that `AgentSystem` takes together with what else a block does: `Check` is the look at the
table in `transition_to`, `Write` the assignment. Workers here are of different agents, so that only the system's lock orders
anything. Reading, testing and incrementing
`retry_count` is one step; `AgentSystem` takes it apart. A thread whose transition is
refused gets the exception its caller sees.

### `TaskLifecycle`

What the code promises of a task, when checks and writes are apart: a status is written (`Move`) only after the table has
been consulted for it (`Intend`), from whatever status the task had then; a retry is spent (`SpendRetry`) only after a
look that found one left (`FailAttempt`), and only who has spent one may have the task wait for it (`IntendRetry`). `intended`, `failing` and
`spent` are what has been granted and not yet used. `AgentSystem!FollowsLifecycle` states that
`AgentSystem` implements it: `status` and `retries` are mapped to themselves, the rest to
the threads that are between a look and a write (`Intended`, `Spenders`, `Spent`). The specification
allows that a terminal status is overwritten by a write granted earlier, and that several attempts spend the last retry;
`TerminalSettles` and `RetryOvershoot` say how far that can go.

### `TaskRepository`

`RedisTaskRepository.save_task` is several steps, any of which may be the last
(`Fail`): `Serialize` reads the task, `AskTtl` asks for the time to live of its key, outside of the
transaction, and `Execute` is the transaction. The time a key has left (`expiry`) is
`long`, `short` - less than half a second, which the `TTL` command rounds down
to 0 - or `none`. `list_pending_tasks` is `ListIndex` and one `ListGet` per id. The task
itself moves (`Advance`) under locks of its own: with `TableOnly` along the transition table, without it to
any status but PENDING, as forced statuses and overtaken checks let it.

No code of the repository installs a hook; the model is that of its evident use,
`save_task` as the persistence hook. The hook is called with the system's lock held (`LockedSavers`),
except in `submit_task`, which always calls it after it has given the lock back (`UnlockedSavers`:
`Dequeued` is the moment it does, when the task has been assigned). Every run has both. Without a time to live, the
model is that of `SqlTaskRepository`, whose transaction follows the serialization.

The order of the saves is thus not that of the states they save, and a reader cannot rely on records moving forward only:
[the findings](#6-findings) say what a late save does. What survives is that a task that has been assigned is never
recorded as new again (`NeverNewAgain`), that outcomes do not stay for good (`OutcomesExpire`), and that listings are
complete (`ListingComplete`).

### `ReplayWindow`, `ReplayBuffer` and `Training`

`ReplayBuffer!Add` is `ExperienceReplay.add`, which holds its lock throughout. The refinement mapping
`Window` unrolls the circle at the position that is overwritten next.
`Training` extends `ReplayBuffer` and adds to it in its own steps. An experience keeps the step it starts in, whether its
episode was over by then, and whether it ends it. One action is one iteration of the loop of a
call: a trainer has no threads, and what matters is which call finds the environment in which state.
`model_type` is chosen at the beginning. Three things raise in the middle of a call, which ends it (`BreakOff`). The network of a policy
gradient returns a tuple, so that `select_action` raises when it exploits, by chance in training and always in `evaluate`
(`SelectRaises`). Only a dqn has the target network that `train_step` reads (`TrainStepRaises`). And
`update_target_network` raises while only the other network has been built by a forward pass (`TargetRaises`; `built` says which
networks have weights). `broke` remembers that the episode before was broken off; the next call starts one anew. The target
of the constructor has no weights to copy, so that `lag` counts from the start.
`total_steps` is kept modulo the product of the two frequencies it is compared with,
which decides every comparison of the code. The environment
ends an episode by chance (any step may) or by `max_steps`. `Usages` says which methods are
called together on one trainer, and `usage` which of these sets a behaviour is of.

### `SqlStore` and `TaskRecords`

`SqlStore` is about connections. `Upsert`, `Insert` and a delete (which writes `NoRow`) execute a
statement inside `engine.begin()`, and `Commit` is the end of the block. A read, or a statement
that fails, is `WithoutCommit` and then `Close`: SQLAlchemy rolls back a connection that is given back
without a commit. `Connection` is the pool: `StaticPool` gives all
threads the same one for sqlite, and a `QueuePool` gives each its own for other databases, which
make one transaction wait for the rows another has written (`Unlocked`).
`acknowledged` is what the calls that have returned have written.

`TaskRecords` keeps two copies of one task. `restored` is saved and loaded again at any
moment (`Restored`), `spared` never is, and the same attempts happen to both. The conversions
are modelled by what can be told apart afterwards: a priority is stored by its name, an empty text in Redis is the
absence of one, JSON turns a tuple into a list, and `x or 3` takes 0 for a missing value.

### `EventStore`

One behaviour is of one backend. `mainList` is the list of all events - in SQL the rows of the
table - and `taskList` the lists per task. An append is atomic on all three: a lock, a
transaction, or a pipeline, which redis-py sends as MULTI and EXEC. Over a network, it may fail before it has been carried out or
after (`AppendRaises`), and the caller may try again with the same event or give up. The SQL table refuses
an id it has (`Refused`). `Restart` empties the in-memory store. Several events may
carry the same `timestamp`, and need not arrive in its order. `get_all_events` and `get_events_for_task` are the sets
of the lists a call may return: one list, and for SQL any order of the rows by timestamp.

### `AgentMemory` and `AgentRegistry`

`episodes` maps a key to its timestamp. Calls may share a timestamp, and the entry
that is evicted is then any of the oldest. `max_episodes` may be 0: then `min()` of nothing
raises (`StoreRaises`), and nothing but the clock has changed.

`AgentRegistry` has the dictionaries of the system and of its orchestrator, the counter and the references of agents.
`add_agent` and `remove_agent` are one lock region each, and take any agent, the orchestrator included: it is in the
dictionary like the others. Nothing in `src/` makes peers or children: `Befriend` and `Adopt` do it as
the tests do, on both sides.

### `GhostModal`

`evaluate` is the mode it arrives at. `executing` is the stack of the calls of `execute`: between the call and
the entry in the log, the tool does what it likes, as `threat_scan` does when it evaluates its text.

### `ShimStartup`

A startup is four steps: `ImportShim` (an import or a reload) or `CallStartup`; `ImportSymbols` or `ImportRaises`; `AfterImport`; `Validate`.
Nothing happens between them: they are steps because the startup may end after each.
`package` is what `import src.agents` gives, raising included, and what the lookup of each name gives: the name, an `AttributeError` (missing) or another
exception, at which the loop breaks off (`Breaking`). `success` is what `_safe_import_from_package` returned, by which `_startup`
decides (`MustRaise`); the errors and flags that others read are separate state. `bound` says of each name whether the shim has it, and
whether from the package as it is or from an earlier one: a reload keeps the globals of a module,
and so does a startup that is called again. A module whose first import raises is dropped (`Raise`).

### `Preprocessing`

The generator's state is `indices` and `current_idx`. `looping` says that somebody iterates; `Break` leaves the
loop early, of which the generator learns nothing. Splits and windows are operators
on the same `indices` and `num_samples`, checked for all ratios, sizes and steps of the instance. Ratios are tenths, so
that rounding down is exact integer division.

### `MCServices`

These eight modules and `StatusRace` share no state, so `MCServices` puts them side by side: `part` is chosen at the
beginning, only that component moves, and the others stay in one initial state. Its
states are the sum of theirs. Each invariant is evaluated in the states of its own component, and holds
in the initial state the component has in those of the others.

## 3. Runs

Each run finishes within two minutes with two workers of TLC. Deadlock is checked in all of
them but `free`, which may stop: once an agent without memory has ended the scheduler, nothing goes on when the calls are used up.

| Run | Instance | Shows |
|---|---|---|
| `free` | 1 task, 2 agents of which one has no memory, 2 workers that execute anything anywhere, a scheduler, a canceller, a cancellation hook | what no interleaving of calls breaks: `QueueSound`, `RunningHasWorker`, `RetryOvershoot`, `TerminalSettles`, refinement of `TaskLifecycle` |
| `one_agent` | 1 task, 1 agent that is suspended at any moment, 2 workers that execute anything, a client, a canceller, `enable_forced_status_fallback` on | types, `IdleAtRest`; `CompletedListedOnce` even when a finished task runs again |
| `scheduled` | 2 tasks with priorities and dependencies, 2 workers, one scheduler, a canceller, an agent that is removed and added again at any moment | `DependencyOrder`, `Ownership`, `SuccessAccounting`, `FailureAccounting`, `CompletedIsClean`, `RetriesKept`, `LostOnlyByDequeue` with stale snapshots, stale choices, and statuses that `cancel_task` overwrites |
| `liveness` | 2 tasks, 1 agent of capacity 1, 1 worker, one scheduler, a canceller | `Settles` |
| `repository_race` | 1 task, 3 savers of which 2 save after releasing the lock, statuses that are forced or overtaken, deletion, a time to live | `ListingComplete`, `OutcomesExpire`, `NeverNewAgain` |
| `services` | `MCServices`: 2 workers and 2 cancellers of one task in `StatusRace`; 2 threads and 2 rows in SQL; 3 retry limits; 3 events of 2 tasks from 2 sources, trimmed to 2 or not; 3 keys in a memory of 2 or 0; an orchestrator and 2 agents; 2 tools, 4 log entries, calls two deep; packages over 2 names; up to 4 samples, batches up to 3, 4 ratios | `RunningNotAbandoned` at the grain of reads and writes; what an acknowledged call has written is kept (`AcknowledgedKept`) and read (`AcknowledgedRead`, `ViewsAgree`); `RestartUnnoticed`; `ForgetsTheOldest`; `NoDanglingReference` and `CountNotBelow`, with the orchestrator removed like any other; `TrailExplainsModes`; `AtomicExport`, `FunctionalMeansAvailable`, `StrictStartup`, `AbsenceExplained`; `EpochIsWhole`, `SplitIsPartition`, `WindowsFit` |
| `training` | a dqn or a policy gradient model; `train_episode` with `evaluate`, `collect_experience` with `train_on_batch`; 3 steps, 4 slots, a batch size of 4, frequencies 2 and 3 | types, refinement of `ReplayWindow`, `EpisodesWhole`, `TargetFresh`, `Finishes` |
| `lost_retry`, `scheduler_stops`, `terminal_race`, `mixed_calls`, `lost_write` | as small as possible | the [findings](#6-findings) |

**Bounds.** `MaxRetries = 1` reaches the first failure, a retry and the last failure; `StatusRace` has 2.
`MaxActive = 1` makes an agent's limit bite with the second task. With two
tasks there is one dependency, a priority to obey, and a competitor for
capacity. Two workers suffice for two overlapping executions on one agent, on two, or of
one task; every pair of interleaved blocks that the properties relate belongs to
at most two executions, a scheduler and a canceller. `ResultBound` bounds the counters: no call of `execute_task`
starts once so many results have been counted, though those under way go on. Free calls would otherwise raise them for ever; with
`FreeCalls = FALSE` the bound is above what can be reached and never disables a call. The view of `free`
leaves out `error`, `assignedTo` and `agentStatus`, which in that instance, where nobody is suspended, nothing reads but properties it does not check.
In `repository_race` two savers of one task are what it takes for one to
overtake the other, a third for a stale one to meet an older one still. Four slots are filled, wrapped and overwritten more than
once, since nothing bounds the number of additions. A batch larger than the frequency of the target lets that come due before the first update, which
is where `update_target_network` raises. With frequencies of 2 and 3 and
episodes of up to 3 steps, updates come due in the middle, at the end and
together with the target's. `StepCap` and `MaxLag` are where two counters of `Training`
stay: one above what the code reaches.

In `services`, two threads are a reader and a writer, or two writers of the same row, and the second row makes a
transaction that another one's rows must survive. `MaxEvents = 3` trims a list of 2; `MaxAttempts = 2` is a
lost answer and the retry. Three keys in a memory of two evict, and `MaxNow = 4` leaves room
for an update and a retrieval between the stores. `MaxTotal = 4` is one more than there are agents: one of them is added twice.
`MaxLog = 4` and `MaxDepth = 2` let a tool evaluate a text, execute another and raise, with entries before and after. Of two names, one is
in the fallback list and one is not, and the package may announce, provide or lack each. Four samples make batches of 3 with a rest,
and ratios of 0.8 and 0.8 add up to more than one.

Symmetry is used over workers, in the runs that have two and check no liveness property.

**What they show together.** Whatever is called, by any number of threads: the queue holds what waits; a RUNNING task has a thread that
ends it; agents become IDLE again; a completed task is listed once. Of the lifecycle, only a weak form
survives, unless statuses are forced. Every write was granted by the table for an earlier status (`FollowsLifecycle`); a task that is over,
and that nobody was about to move when it ended, stays as it is (`TerminalSettles`); `retry_count` exceeds `max_retries` by less than the number of workers
(`RetryOvershoot`). The strong forms - a terminal status is never left, every task that completes is counted once, `max_retries` is kept - are
false of the code when two threads move one task: `terminal_race` shows the first, and the two others fail in
`MCFree.cfg` as [Findings](#6-findings) says.

Where one scheduler is the only thread that submits, and a worker executes what is active on its agent and no other worker executes, as
the examples and tests do, more holds, though `cancel_task` still comes in between any look and write: one owner per task, the order of
dependencies, both counters, the error of a completed task, and the number of retries. Of two schedulers with overlapping snapshots,
both may assign the task, to two agents, since `assign_task` accepts an
ASSIGNED or RETRYING task again; a client may submit what is not ready.

## 4. Fairness

`Settles` assumes weak fairness of

- `Submission(s)` of each scheduler: `run_forever` calls `run_once` again and again until it is
  stopped, and a thread inside it is scheduled;
- `Execution(w)` of each worker: somebody executes what is active on an agent - the documented
  use of the system - and `think` and `act` return, which a task's
  `timeout_seconds` enforces;
- `RetryComesDue(t)`: time passes;
- `Cancellation`: who is inside `cancel_task`, and has the system's lock, gets on with it.

`Finishes` assumes that a loop that can go on does (`WF_vars(Loop)`); chance is
not assumed ever to end an episode.

No fairness is assumed of creating tasks, of beginning to cancel, of clients or operators. Nothing stronger
than weak fairness is needed: once a task is ready, the scheduler's loop is never
disabled.

## 5. Proofs

`AgentSystemProofs` and `ExecutionProofs` prove, for all sets of tasks, agents and threads, and from the
assumptions named in `AgentSystem` (`NullAssumption`, `ParameterAssumption`,
`ThreadAssumption`) and the hypotheses shown and nothing else:

| Theorem | States |
|---|---|
| `TypeCorrect` | `Spec => []TypeOK` |
| `QueueCorrect` | `Spec => []QueueSound` |
| `RunningCorrect` | `Spec => []RunningHasWorker` |
| `IdleCorrect` | `Spec => []IdleAtRest` |
| `CompletedCorrect` | `Spec => []CompletedListedOnce` |
| `LifecycleRefinement` | `~ForcedFallback`: `Spec => FollowsLifecycle` |
| `TerminalStatusSettles` | `~ForcedFallback`: `Spec => TerminalSettles` |
| `RetriesBounded` | finitely many workers: `Spec => []RetryOvershoot` |
| `RetriesKeptCorrect` (`ExecutionProofs`) | `~FreeCalls`: `Spec => []RetriesKept` |
| `RetryLossCorrect` | `~FreeCalls`: `Spec => LostOnlyByDequeue` |
| `OwnershipCorrect` | `Driven`: `Spec => []Ownership` |
| `CleanCorrect` | `Driven`: `Spec => []CompletedIsClean` |
| `DependencyCorrect` | `Driven`: `Spec => []DependencyOrder` |
| `SuccessCorrect` | `Driven`, finitely many workers: `Spec => []SuccessAccounting` |
| `FailureCorrect` | `Driven`, finitely many workers: `Spec => []FailureAccounting` |

The first five need no hypothesis about who calls what. `~FreeCalls` says that a worker executes what is active on its agent
and what no other worker executes. `Driven` is the program as its examples and tests drive it: that, no forced statuses (the default), and one
thread in `run_forever` as the only one that submits. Cancellation, removal of agents and suspension come at any moment in all of
them. The runs show the same properties under the same
hypotheses. Workers are finite where they are counted.

`TaskRepositoryProofs`, from `NothingAssumption`, and `TrainingProofs`, from
`MaxSizeAssumption` and, for `Training`, `SizesAssumption` and `UsagesAssumption`:

| Theorem | States |
|---|---|
| `TaskRepositoryProofs!TypeCorrect` | `Spec => []TypeOK`, with the index |
| `ListingCorrect` | `Spec => []ListingComplete` |
| `NewCorrect` | `Spec => NeverNewAgain` |
| `ExpiryCorrect` | `Spec => []OutcomesExpire` |
| `PositionCorrect` | `BufferSpec => []PositionOK` |
| `WindowRefinement` | `BufferSpec => ImplementsWindow` |
| `TrainingProofs!TypeCorrect` | `Spec => []TypeOK` |
| `BufferRefinement` | `Spec => BufferSpec`: whatever is called on a trainer, its buffer is used as `ReplayBuffer` says |
| `TrainerWindowCorrect` | hence `Spec => []PositionOK /\ ImplementsWindow` |
| `FreshCorrect` | `Spec => []TargetFresh` |
| `EpisodesCorrect` | `Separate`: `Spec => []EpisodesWhole` |

`BufferRefinement`, `TrainerWindowCorrect` and `EpisodesCorrect` take `Experiences`, a parameter of `ReplayBuffer`, to be what a trainer
stores (`StepExperiences`). `Separate` says that nobody collects on a trainer that also trains or is evaluated; the run
`mixed_calls` shows what happens otherwise.

The proofs about the services, each from the one assumption its module names (`SqlAssumption`,
`RetryLimitsAssumption`, `LimitAssumption`, `LimitsAssumption`, `RegistryAssumption`, `GhostAssumption`, `ShimAssumption`,
`SizesAssumption`; `StatusRace` has two, `RetriesAssumption` and `ThreadsAssumption`), for all sets of threads,
rows, keys, agents, tools and names, and all numbers:

| Theorem | States |
|---|---|
| `AcknowledgedCorrect` (`StorageProofs`) | `~SharedConnection`: `SqlSpec => []AcknowledgedKept` |
| `RestartCorrect` | `RecordsSpec => []RestartUnnoticed` |
| `ViewsCorrect`, `ReadCorrect` | `EventSpec => []ViewsAgree`, `[]AcknowledgedRead` |
| `ListsExist` | `EventSpec => []ReadsReturn`: every read returns some list, so that what the two say of all lists is not empty |
| `ForgettingCorrect` (`AgentProofs`) | `MemorySpec => []ForgetsTheOldest` |
| `ReferencesCorrect`, `CountCorrect` | `RegistrySpec => []NoDanglingReference`, `[]CountNotBelow` |
| `TrailCorrect` | `GhostSpec => []TrailExplainsModes` |
| `RaceCorrect` | `StatusRace!Spec => []RunningNotAbandoned` |
| `ExportCorrect` (`ShimStartupProofs`) | `ShimSpec => AtomicExport` |
| `FunctionalCorrect`, `StrictCorrect`, `AbsenceCorrect` | `ShimSpec => []FunctionalMeansAvailable`, `[]StrictStartup`, `[]AbsenceExplained` |
| `EpochCorrect` (`PreprocessingProofs`) | `BatchSpec => []EpochIsWhole` |
| `SplitCorrect`, `WindowsCorrect` | `BatchSpec => []SplitIsPartition`, `[]WindowsFit` |

*Types* are inductive. `RegionInv`, which the other proofs use, says what a worker has in hand in each block: whether it has
an exception, and to which status it is about to move its task.

*The queue.* `QueueSound` is not inductive: `Dequeue` removes a task whatever its
status. `QueueInv` adds that the task of a thread that is about to record an assignment or to dequeue is not
PENDING - it has been moved, and no write of any thread makes a task PENDING.

*Running.* `RunningInv` says of the worker of a RUNNING task that it keeps the task (`Keeps`): that it is on its way to a write of
another status, and that its way is not cut off. The interesting
case is the handler: a refused transition leaves the status alone, but the table lets
RUNNING go to each of the three outcomes, so a RUNNING task is not refused one - and only after a refusal does the handler look whether
a task is FAILED already, so a worker that does so does not count.
A RUNNING task that another thread overwrites is not RUNNING any more; one that another worker makes RUNNING has that worker.

*Agents at rest, completed tasks.* Both are inductive with the types. `IdleAtRest` holds
since the only step that takes an execution off an agent also leaves the agent IDLE or SUSPENDED, and
`CompletedListedOnce` since the list and the set of its ids are changed together.

*The lifecycle.* Each look at the table is an `Intend`, each write a `Move`, and the handler's steps are `FailAttempt`, `SpendRetry` and
`IntendRetry`, by the very conditions the code tests. What must be shown is that the rest changes nothing in the mapping: the intended statuses are those of all
threads that are between a look and a write, and a grant that one thread has used may still be another's. A step of a
thread that neither looks nor writes leaves `Intended` alone (`UndecidedStep`). `TerminalStatusSettles`
follows from the table, which grants nothing to a task that is over: its set of grants stays empty, and nothing else writes.

*Retries.* Comparing and incrementing are two steps, so the count can overshoot. `RetryInv` counts the retries together with the workers that
have found one left and not yet spent it: these are at most `MaxRetries` and all the workers but one, since whoever is the
first to find one left is counted in both. With one thread at a time on a task (`HoldInv`), there is at most one such worker,
and `RetriesKept` holds (`RetriesInv`).

*Lost retries.* The finding `lost_retry` is a race of one step, and `LostOnlyByDequeue` says that there is no other: whenever
a task that waits for a retry gets out of reach of the queue, the agents and the threads, the step is the removal that ends
`submit_task`. `EndInv` says that a worker without an exception does not end a task that is RETRYING, so that one
whose task is has an exception to report, and `Aggregate` queues it. It is the agent's active set that covers the time between the assignment and `ExecuteCall`. The theorem needs
workers that leave each other's tasks alone: a second one that has completed the task may let go of it
when the first has moved it to RETRYING.

*Ownership.* This is the longest of the proofs, since an agent and its task meet in six places: the
scheduler's snapshot, the choice, the agent's active set, the worker, the queue, and `cancel_task`. `OwnInv` has a part for each. What the
scheduler has copied is free - active nowhere, and no worker's - however long ago it looked, since nobody else submits
(`SchedulerOwns`); a task is active where it is assigned only, a PENDING one nowhere, and one that
is queued is free or about to be taken off the queue, unless an exception has ended the scheduler in between (`TaskOwned`); a worker has its task on its agent until it
releases it, and the task then has the status the worker has brought about or CANCELLED (`WorkerOwns`); and whoever is about to write CANCELLED over an
outcome does so while the worker that produced it has not reported it (`CancelOwns`). The last holds because
the report takes the system's lock. Removal and
suspension at any moment disturb none of it. `CompletedIsClean` is a part of `TaskOwned`.

*Dependencies.* `DependencyInv` carries readiness from the scheduler's check to the
assignment several blocks later: a task that is past the check (`Committed`) has dependencies that are COMPLETED and that no thread is about to move
(`ReadyForGood`). That a completed task may still be cancelled by a late write is why the second half is needed; that the scheduler's
check takes the system's lock, which `cancel_task` keeps between its look and its write, and that no second worker has the
dependency, is why it holds. The snapshot of the retry loop has ready tasks only, which is why
`process_retry_queue` may omit the check.

*Success and failure.* The accounting properties compare numbers, which no step's effect can be judged by. `SuccessInv` and `FailureInv` say what
they count: the tasks with that outcome that no worker has any more are those that have been reported (`Reported`), and the others are each
the task of exactly one worker that has a result to report. Only `Aggregate` reports, and by ownership no other call can
report the task again. The theorems follow because the pairing is a bijection between
finite sets. Successes have an index besides, `completedIds`, which is the same set.

*The listing.* `ListingComplete` needs `SureIsPending`: what has been pending since the
call began is pending now, so the read of its record finds it.

*Never new again.* A task that has a record other than PENDING is not PENDING (`RecordedStarted`), nor is the task that a saver behind the lock's back
has in hand (`InHandStarted`): `submit_task` saves after the assignment. A payload of PENDING is thus in the hands of
somebody who holds the system's lock (`PendingUnderLock`), and a task cannot be assigned by then, since `submit_task` must take it off the
queue under the same lock.

*Expiry.* Whoever will lift the limit of a key (`persist`) writes a status that is not terminal in the same transaction (`PersistsUnfinished`), so
that it does not matter that `AskTtl` is not part of it.

*The window.* Adding to a list that is growing appends to the window, and at the
moment it is full the position is back at its start, where the two layouts agree
(`WindowFacts`); from then on, overwriting the oldest and moving on drops it from one end of the
window and appends at the other.

*Training.* `TypeInv` adds that a method that is running has something left to do. The buffer is written in the steps of
the trainer, each of which is an `Add` or leaves it alone: that is `BufferRefinement`, and the theorems
about the buffer carry over. For the target network the proof counts steps by remainders, as the code
does: `total` is kept modulo the product of the frequencies, of which both remainders survive (`NextSince`). `LagInv`
says that the updates the target has missed were `UpdateFreq` steps apart and all happened since it was
last set, and that there are none before both networks have weights, which is what makes the break-off by `TargetRaises` harmless to
the count. `EpisodeInv` says that what the environment does next continues what the window ends with
(`Follows`), which is where a step of `evaluate` on an environment that is being collected from breaks it; where an episode was broken off, `broke` says so of the next experience, which starts at 0. Trimming the
window at its front keeps what follows what.

*SQL transactions.* `SqlInv` says that the open transaction of a connection is the one row of the caller
it belongs to, and that the table is what has been acknowledged. A commit then changes exactly the row it
acknowledges. Of a shared connection the first half is false, and `lost_write` shows what follows.

*Restarts.* The property looks at tasks that are over; `RecordInv` compares the two copies throughout. What decides about the
course of a task - status, counts, priority - is equal; what does not may differ by what a database forgets
(`Alike`); and tasks with `max_retries` of 0 in SQL are exempt, now and ever after.

*The journal.* `ListsAgree` says that the list of all events ends, task by task, as the list of each task does (`EndsAlike`),
counted from the end. Appending to both keeps that, and so does cutting the first events off the list of all, which is why trimming that
list alone is sound. A table has no such lists, only rows. `OrderedViewsAgree` compares two ordered reads of it by
the pigeonhole principle: if the event of a task that is so many from the end had different times in the two, then too many
of its events would have later, or earlier, places in one than there are in the other. `Readable` says that rows can be put in
order at all; a new row is inserted after those that are not later. That what is acknowledged is read once rests on the
primary key in SQL, and in memory on the fact that an append cannot fail there: whoever waits for one is the
only source of an event that is on no list yet (`OnceInMemory`).

*Memory.* `MemoryTypes` adds to the property that an entry bears the time at which its key was stored last. Eviction
takes an oldest entry, and what was forgotten earlier is no younger than that one. Cardinalities
are those of `FiniteSetTheorems`: a memory that evicts gives up one key for one.

*Registry.* Peers are registered, and parents are unless the parent is the orchestrator, but children need not be; what makes the cleaning of the
removed agent's own lists sufficient is that peers are symmetric, and that whoever has a parent other than the
orchestrator is among its children. Of the orchestrator the latter is false, and the property allows for it. A second addition gives an agent the orchestrator as
its parent again and leaves it in the list of its old one, which is why
`remove_agent` tests `child.parent_agent == agent_id`.

*The audit trail* is inductive with its types: an entry is an evaluation, which explains any mode, or bears the
mode the modal is in when it is written.

*The status under two locks.* `RaceInv` adds what the threads may ask `transition_to` for. A worker at any point between
reading and writing is one that will end the task (`WillEnd`); the only status the table refuses to a worker of a RUNNING task is
RUNNING itself, and that refusal leads to the handler, which is such a point again.

*Batches.* `EpochInv` says that the samples before the position have been handed out once and the others not at all, and where the
position is after so many batches (`Progress`): at the end of the last full one, or at the end of the samples. An order is an
injection between sets of one size, and so onto. The three parts of a split are adjacent
slices, cut off at the end, and their concatenation is the order itself. The number of windows is a floor, of a negative number
too if the window is longer than the sequence.

*Shim.* `OneAge` says that a complete import has bound every name of `__all__`, from one
package. `ReturnAgrees` says that a returned success is one that the errors and the flag show, on each path of the import and until the
next one begins, and `StrictSoFar` that a strict startup past its
checks has had one. `AbsenceExplained` is inductive with the types.

## 6. Findings

Each has a run, whose counterexample is the story told here.

- **A retry can be lost** (`lost_retry`). `submit_task` assigns under the agent's lock and removes the task
  from the queue afterwards under the system's. If a worker executes and fails the task
  in between, `execute_task` skips the requeue, since the task is still queued, and then the
  removal drops it: it stays RETRYING and no dispatch finds it again.
- **Adding or removing an agent can end the scheduler** (`scheduler_stops`). The orchestrator iterates over `managed_agents` without a
  lock; when `add_agent` or `remove_agent` changes the dictionary meanwhile, Python raises. Nothing catches the exception on its way out of `submit_task`
  and `run_once`, and `run_forever` catches `KeyboardInterrupt` only: it ends, though it is to run "until `stop_event` is set".
- **A terminal status can be overwritten** (`terminal_race`). The check of the transition table
  and the assignment are two steps; a cancellation between them is overwritten, although the
  transitions are documented as guarded.
- **A step beyond the last** (`mixed_calls`). `collect_experience` resets the environment only if it has no
  state yet. After `train_episode` it takes step `max_steps + 1` in the finished episode and stores it.
- **An acknowledged write can be lost** (`lost_write`). For a sqlite URL, which is the default of
  the factory, all threads share one DBAPI connection (`StaticPool`), and so one transaction. `get_task` of one
  thread gives the connection back, which rolls back the row that `save_task` of another has just written; its
  commit then commits nothing, and it returns. `TaskRepository` says that "implementations must be thread-safe".

The models show more than the runs state. To see the following, change a constant of the
configuration named.

- *A direct `submit_task` ignores dependencies*, which `create_task` documents as tasks "that must
  complete before this task runs": `DependencyOrder` fails in `MCScheduled.cfg` with a member in `Clients`.
- *Retries can exceed `max_retries`, and a completion can be counted twice or not at all*, when two workers execute one task on two agents: the handler compares and increments
  `retry_count` under the lock of its own agent, and two looks at the table may both pass. `RetriesKept` and `SuccessAccounting` fail as invariants of
  `MCFree.cfg`.
- *A save can be stale.* `submit_task` calls the persistence hook after it has released the lock, so
  its save of an ASSIGNED task may come after that of the end of the task, and the record
  stays ASSIGNED, without a time to live: `OutcomeKept` fails as a property of `TaskRepositoryRace.cfg`, with `TableOnly = TRUE` too.
- *Removing the orchestrator leaves dangling references.* `remove_agent` accepts its id, but finds the agents it is the parent of in its
  `child_agents`, which `register_agent` does not fill: all of them keep it as `parent_agent`, though "all references" are to be cleaned up.
  `AllReferencesClean` fails as an invariant of `MCServices.cfg`.
- *Policy gradient models cannot be trained or evaluated.* `train_step` uses `target_network`, which only a dqn has, and `select_action` raises when it
  exploits, since their network returns a tuple: `train_episode` is broken off in the middle, and so is the episode in the buffer.
- *The target network may be due too early.* If `target_update_freq` is reached before the first update, and the network has been used but not
  trained, `update_target_network` copies weights to a network that has none yet, and raises, for a dqn.
  `EpisodesWhole` makes an exception of episodes that were broken off; without it, `Training.cfg` fails.
- *A task that may not be retried* (`max_retries` of 0) has 3 retries after it has been
  loaded from SQL: `RestartUnnoticed` makes an exception of it. In Redis, an empty error message comes back as none.
- *A retried append is recorded twice in Redis*, which has no key to refuse it by; SQL refuses it
  with an exception. `AcknowledgedRead` allows for both. SQL orders events by their timestamp and leaves
  open how it orders those of one timestamp, also from one read to the next; the others order them by their insertion.
- *A memory of no episodes* cannot store one: `store_episode` raises.
- *The counter of agents drifts upwards*: adding an agent again counts it again, removing it counts once. `CountNotBelow` is
  an inequality for this reason. A parent's `child_agents` keeps an agent that has been removed.
- *The audit entry of a tool shows the mode the tool left*, which need not be one that offers the
  tool: `threat_scan` of a harmless text is recorded in normal mode. The trail is consistent nevertheless.
- *`validate_all_modules` raises*, although it is documented as "Does not raise": an exception other
  than `ImportError` in a submodule passes through it, and through a startup that is not strict (`Unexpected`).
- *A strict startup that is run again may raise from its validation and leave the shim functional*:
  `is_shim_fully_functional` knows nothing of the validation.
- *A loop over a batch generator that is left early* makes the next one yield the rest of the epoch only. `EpochIsWhole`
  counts from one `StopIteration` to the next for this reason.
- *A window longer than the sequence* gives an empty array if it is longer by at most a step,
  and an exception from `np.zeros` if it is longer than that.
- *A cancellation can come too late.* `cancel_task` returns True for a RUNNING task that is past
  its last boundary check, and the task completes. That is what cooperative cancellation
  amounts to, although the docstring promises that the request fires on the next check.

## 7. Limits

*Only model-checked*: liveness (`Settles`, `Finishes`), which TLAPS does not reason about here. Every invariant and every
action property that the passing runs check, and every refinement, is proved.

*What the properties leave out*, because the code does not have it: dependencies of what a client submits itself; a task whose dependency has
failed or been cancelled, which waits for ever; tasks with `max_retries` of 0 in `RestartUnnoticed`; the reference to a
removed orchestrator in `NoDanglingReference`; broken-off episodes in `EpisodesWhole`; a clock that goes back, which `datetime.now` may, in `ForgetsTheOldest`; the order of a
record's states in `TaskRepository`.

*Atomic in `AgentSystem`, not in Python*: what a block does to data its lock guards; a `+=` under that lock; the orchestrator's look at all agents,
except that it may raise; the reads of several tasks' statuses in a snapshot, and of several dependencies' in `is_task_ready`.

*Not modelled in the task system*: durations and metrics, telemetry, the making of agents
by the factory, the length of the backoff, the callback
of `run_forever`. Removing an agent leaves its active tasks where they are, in the
model as in the code: they stay ASSIGNED to an agent no call finds, which
no document says anything about.

*Not modelled in the services*: the in-memory repository, which keeps the task objects themselves under one lock, so
that a reader always sees the task; the parameters and metadata of stored tasks, which go through JSON
as results do; semantic and procedural memory, which have no bound; the logging and the deprecation warning of the
shim; the scores of the modal router, of which only the mode they lead to matters; a `max_events` of 0, which the factory never
passes. The floating-point rounding in `split_data` may make a set one sample smaller than the exact
product; the partition does not depend on it.

*Not modelled at all*: the arithmetic of the network and of normalisation (floating
point), the configuration tables, the HTTP service, the CI script, the infrastructure files
and the agent profiles: they keep no state, or are no program.

## 8. Plan

The order is by what matters most; the first seven groups are done.

1. `TaskModel`, `TaskLifecycle`, `AgentSystem`, `StatusRace`, their runs and theorems.
2. `TaskRepository`, with what survives saves out of order.
3. `ReplayWindow` and `ReplayBuffer` with the refinement proved; `Training`, which extends it.
4. `SqlStore`, `AgentMemory`, `AgentRegistry`, `ShimStartup` with their theorems.
5. `TaskRecords`, `EventStore`, `GhostModal`, `Preprocessing`, checked with the former by `MCServices`.
6. Proofs of the safety properties of all of these, in the order above: the executions of `AgentSystem`, `StatusRace`,
   `Training`, `TaskRecords`, `GhostModal`, `Preprocessing`, `EventStore`.
7. The grain of `AgentSystem` refined to reads and writes of what no one lock guards, and the proofs carried over.
8. What could follow: ownership of each task for several schedulers, as far as it holds (what `assign_task` would have to
   refuse); a version of `AgentSystem` with one lock per task, and what it would restore of the strong forms of the properties.
