# Verification of the Amadeus runtime

Amadeus is a desktop companion agent: an Electron/Vue front end, a TypeScript
bridge and a Python runtime (`packages/amadeus`).  The runtime does its longer
work as *tasks*: rows of a SQLite table that worker threads and worker processes
claim, execute with an agent turn, retry, hand over for review, cancel and
recover; a supervisor process starts and reclaims the workers, an orchestrator
makes graphs of tasks, a scheduler delivers messages at their times.  Several
processes share the tables without any other lock.  The turns themselves, of
workers and of the user's sessions, are threads that call a model provider, ask
for permission, run tools under a time-out and can be cancelled at any step.
Around them the runtime keeps what it knows: conversations and their summaries,
plans, facts and their vectors, settings.  This directory holds TLA+ models of
these parts, what TLC checks of them and what TLAPS proves about them.

Paths below are relative to `packages/amadeus` unless they start with a
directory of the repository root.

## Inventory

| Part | State it keeps | Operations | What is hard | What makes it correct |
|---|---|---|---|---|
| Task store (`memory.py`, `tasks.py`) | `tasks`, `task_edges`, `task_attempts` rows | start, heartbeat, finish, retry, block, resume, approve, cancel, recover, create, rewire | methods that SELECT and then UPDATE, shared by processes; leases | claims, leases and statuses agree; finished rows stay finished |
| Task worker (`workers.py`, `task_worker_entrypoint.py`) | local variables of each `_run_task`, `_running`, `_turns`, `_timers` | submit, run, heartbeat, fail or retry, cancel, recover | crashes between any two statements, late runs, double execution, timers | fencing by `claim_lock`, of runs and of the recoveries of lost processes; retry budget, orphan recovery, cancellation wins |
| Resumed attempts (`workers.py`, `memory.py`) | attempts, tool artifacts with file manifests, the checkpoint | record a tool call, verify manifests, build the context of the next attempt | the file changes in between; an attempt dies between an edit and its record | a resumed attempt does not redo an edit its context has, and reads what changed since such an edit before it edits it |
| Subprocess runner and external supervisor (`workers.py`, `task_supervisor.py`) | child table, `task_processes`, `supervisor_leases` | spawn, adopt, terminate, kill, reconcile, renew, tick | two supervisors, crash between spawn and registration | only dead processes are written off, the limit of workers holds |
| Orchestrator (`orchestrator.py`) | graph rows, edges, root checkpoint | apply, dispatch, replan, synthesize, cancel_graph | graph changes while children run | no circle, children start as planned, what is over stays over |
| Scheduled jobs (`scheduling.py`, `memory.py`) | `scheduled_jobs` rows | claim, deliver, complete, fail, pause, resume, cancel; the arithmetic of schedules | calls between the scheduler's reads and writes; short months | a waiting job has a time and fires; no run is skipped |
| Plans (`planning.py`, `memory.py`) | plan items, plan runs of turns | update_plan, mirror of a task's status, finish, archive | mirrors written after the row, two writers | one item in progress; an archived run tells what became of its items |
| Agent turn loop (`agent.py`) | `_running_turns_by_session`, pending permissions, saved messages, each turn's history | run_turn, cancel_turn, permission answers | cancellation, late answers, time-outs and lost clients at every step; two turns of one session | a cancelled turn starts no tool and no further round, only approved tools run, calls and results stay paired, every turn ends |
| Tool runtime (`tool_runtime/*`) | guardrail counters, the session's workspace epoch, the future of a handler | check before and after a call, execute, audit | handlers that outlive their time-out; an epoch read before the call | a futile call is stopped, a call on a changed workspace is not; no tool works beside its turn |
| Conversations (`memory.py`, `agent.py`, `identity.py`) | messages, summaries, sessions, roles and their SOUL.md | save, compact, reset, rename, title | compaction beside turns and resets, cuts between a call and its result | nothing falls between summary and history; an automatic text chosen after a user wrote one does not replace it |
| Long-term memory (`memory.py`, `memory_provider.py`, `memory_embeddings.py`) | facts, full-text index, history, vectors, candidates, review jobs | save, replace, forget, propose, accept, reject, review, search | several threads that read, then write | index, history and candidates account for the facts; a review job tells what was read |
| Event bus (`runtime_events.py`) | bounded queues of subscribers | publish, subscribe | slow subscribers, publishers racing for a full queue | order kept; only a full queue loses events |
| Embedding jobs (`embeddings.py`, `memory_embeddings.py`) | state of the deployment, state of the backfill | deploy, cancel, start, status | two callers, a lock held while calling back | the status is true, every call returns |
| Settings (`server.py`, `model.py`, `agent.py`) | `.env`, `providers.yaml`, `runtime.yaml`, `tools.yaml`, what the runtime works with | update of the model API, speech, embedding, runtime, tools | files read and written whole, requests side by side, crashes | an update leaves other settings alone; the runtime follows the files |
| HTTP runtime (`server.py`) | none of its own | turn, task, job and configuration endpoints | requests racing each other | each endpoint's guard is tested where it writes |
| Bridge (`apps/server/src`) | sockets, session subscriptions | fan-out of runtime events | reconnects | not modelled |
| Audio, Live2D, model clients, skills, MCP, sandbox, UI, scripts | device and remote I/O | | | not part of this development |

How they interact: the HTTP runtime and the orchestrator write rows and *submit*
task ids; a runner (thread pool, forked process, subprocess, or only the external
supervisor) calls `_run_task`; the run and its heartbeat thread talk to nobody
but the store; the recovery loop and the supervisor find stale rows and submit
them again; every change is published as `task.updated` on the event bus and
reaches the bridge.  A run's turn and a `POST /agent/turn` are the same generator,
`run_turn`; its events go to the worker or, one JSON line each, to the client
that asked.  Meanwhile `POST /agent/cancel` sets the turn's `cancel_event`, `POST
/tools/permission` answers what the turn waits for, and each tool handler runs in
a thread of its own, behind a guardrail that knows what the turn has tried and
what earlier attempts of the task left.  Before a turn its context is put together
from summary, recent turns, recalled facts and plan; after it the conversation may
be compacted and reviewed for facts.

## Modules

| Module | Models |
|---|---|
| `TaskStore` | the rows and, as one action each, the committed statements of the store methods; the predicates those methods test |
| `TaskWorker` | `TaskWorker._run_task`, its heartbeat thread, `_handle_failure`, the cancel, resume and approve calls, the recovery loop, crashes, what a `SubprocessTaskRunner` does when its process exits (`_recover_process_loss`), and the clock, over `TaskStore` |
| `TaskPromise` | the abstract specification: what a reader of the tasks table may rely on, without runs, leases, calls or crashes; refined by `TaskWorker` and by `TaskSupervisor` |
| `TaskSupervisor` | `DurableTaskSupervisor` and `SubprocessTaskRunner` over `TaskStore`: lease, tick, reconciliation, adoption, registration, termination, worker processes seen from outside |
| `TaskGraph` | `OrchestratorService` over `TaskStore`: apply, dispatch, replan, synthesize, cancel_graph by handlers that run at once |
| `ScheduledJobs` | the rows of jobs, the scheduler thread, the callers beside it |
| `Transcript`, `PermissionBroker`, `AgentTurn` | what of a conversation is sent to a provider; register, resolve and wait of permissions; `run_turn`, `_execute_tool_call`, `ToolRegistry.execute` with its handler threads, `cancel_turn` |
| `ToolLoop` | the guardrail of a turn and the workspace epoch of its session |
| `FileResume` | what a next attempt knows of a file that attempts before it edited |
| `SessionPlans` | plans, their mirrors and the plan runs of turns |
| `Sessions` | sessions, titles, roles, SOUL.md |
| `Compaction` | summaries and recent turns of a conversation that goes on meanwhile |
| `LongTermMemory` | facts, index, history, vectors and candidates |
| `MemoryReview` | `review_memory` and its job rows |
| `RuntimeEventBus` | subscribers' queues and one event stream |
| `EmbeddingDeployment`, `MemoryBackfill` | the two lock-protected runners |
| `Settings` | the files of settings and the requests that rewrite them |
| `Schedules`, `WorkerPolicy`, `TaskPlans`, `Recall` | pure functions: next runs of a schedule, a worker's tools and unasked actions, `validate_graph`, what is recalled of a conversation and found in memory |
| `MCTaskWorker`, `MCTaskSupervisor`, `MCTaskGraph`, `MCAgentTurn` | model values, symmetry sets and graphs for TLC |
| `Services` | the parts that do not interact with the others, as alternatives of one specification |
| `MCServices` | a small instance of each of them |
| `TaskWorkerProofs`, `TaskSupervisorProofs`, `TaskGraphProofs`, `ScheduledJobsProofs`, `AgentTurnProofs`, `LongTermMemoryProofs`, `FileResumeProofs`, `ServicesProofs` | the theorems |

`ScheduledJobs`, `MemoryReview` and `MemoryBackfill` are run as they are.
`Services` is a union, not a composition: `part` is chosen at the start, the
parts share its variables `v1` to `v9`, and a property speaks of its own part.

### State of the tasks

`status`, `claim`, `tries` are the columns `status`, `claim_lock` and
`attempt_count`.  `lease` is `lease_expires_at` compared with the clock: none,
live or expired.  `parked` stands for `due_at`, `next_run_at` and `ready_at`
together: at least one of them is in the future.  `phase` is what the code reads
out of `checkpoint_json`.  `edges` is `task_edges`.  A run's id is the
`claim_lock` uuid that `_run_task` makes up, so claims of different runs differ.
`pc`, `job`, `outcome`, `snap`, `attempt` and `stop` are the run: where it is,
its `task_id`, how its turn ended, the `attemptCount` of the row it read last,
the status of its `task_attempts` row and its `cancel_event`.  A run in `Watched`
is the child of a `SubprocessTaskRunner`, the default runner: `loss` is where the
parent's `_recover_process_loss` is when that process has exited, by itself with a
code other than 0 (`task_worker_entrypoint.py:93`) or killed.  It is due; then it
has read the claim and, in `snap`, the `attemptCount` of the row (`LossRead`); then
it retries or fails the task by what it has read (`LossWrite`), or the parent is
gone first (`LossForgotten`).  `slot` is
`TaskWorker._running`.  `call` is what an API call remembers between its steps,
`scan` the list `stale` inside `recover_stale_running_tasks`.

### State of the turns

`running` is `_running_turns_by_session`; a turn's `cancelled` is its
`cancel_event`.  `transcript` is the `messages` table, `history` the list
`_run_turn_impl` sends to the provider.  `pc` and `round` (`tool_iterations`) are
where the generator is, `calls` what is left of `for tool_call in tool_calls`,
each call reduced to what can become of it (refused, allowed, to be asked for, an
allowed `skill_view`).  `handler` is the future that `run_with_timeout` submitted:
a turn has one at a time, and one that timed out is the last.  `pending` is
`_pending` of the broker; `said` is kept for the properties: the calls whose
approval was accepted.

### Where the steps are cut

In the turn: at every event that is yielded (the client may be gone, and the
generator is closed there), at every look at something another thread writes
(`cancel_event`, the broker's entry, the handler's future), at every saved
message.  A yield between two such steps that changes nothing is merged with the
next one.  `wait` is three steps, with the broker's lock released in between:
the event is set or the wait times out, the answer is read, the entry is dropped;
the first two are one here, since an answer that is replaced before it is read
leaves no trace.  `Begin` stands for the checks of `run_turn` that passed; a turn
that is rejected touches nothing.

In the store: `connect()` opens SQLite with Python's default isolation: a SELECT runs in
autocommit, a transaction starts with the first INSERT or UPDATE.  A method that
reads and then writes is therefore two steps, with the rest of the world in
between (`settle` then `write` of a run, the first and second step of a call,
`ScanStale` then `Recover`, `LossRead` then `LossWrite`), and what the UPDATE's WHERE clause says is a test
of the second step.  `start_task` and `block_task` begin with BEGIN IMMEDIATE:
each is one step.  `start_task` reads the row it returns after its transaction,
which is the step `Reload`.

Steps that commute with everything in between are merged: the reread and the
registration in `_running`; the last event of a turn, the check of
`cancel_event` after the loop and `finish_task_attempt`; the look-up of the
`cancel_event` and the SELECT of a cancellation.

Assumed of what is outside `workers.py`: an agent turn may end with a message, an
error, a tool that needs approval or a cancellation, in any state (a turn can be
cancelled through its session too: `POST /turns/.../cancel`).  Every store call
may raise before it has an effect; it does not raise after a commit.  Submit is
not guarded: `POST /tasks/{id}/resume`, timers, `dispatch_ready` and the recovery
submit ids whatever has become of the row.

Assumed of what is outside `agent.py` and the registry: a provider decides
anything, in any round, or fails, and a failure is a context overflow at most
once for each request; it gives every call an id of its own (`CallId`).  A store
call of a turn raises only where `Abort` is enabled, that is not between the
answer to a permission request and the tool's result.  Texts of different user
messages differ.

### State and steps of the other parts

The rule is the same everywhere: a SELECT and the transaction that follows from it
are two steps if anybody can come in between, a transaction is one, and so is a
section under a lock.  A file is truncated in one step and filled in another.
What the code compares times for is reduced to the outcome (`next_run_at` is null,
later or past; a lease is live or expired).  History variables (`linked`, `fired`,
`clashed`, `raced`, `met`, `alone`, ...) are named as such where they are declared
and restrict a property to what the code can promise: it says in each comment
what is excluded.

- *Supervisor.* `owner` is the row of `supervisor_leases`, `sup` where each
  supervisor is in its tick, `todo` and `plan` the lists it read at its start,
  `kids` its `_processes`, `loss` the two halves of `_recover_process_loss`, `proc`
  and `job` the rows of `task_processes`, `life` the process itself.  A lease may
  be taken at any step: the heartbeat of a stalled process keeps nothing.  A
  worker process claims, settles and exits as `TaskWorker` lets it.  The end of the
  reconciliation is one step with the recovery, since nothing is between them.
- *Graph.* `made` are the tasks that have a row, `edges` their dependencies,
  `replaces` is `replanOfTaskId`, `calls` what each handler is in the middle of:
  children are created one by one, then linked one by one.  Workers are the
  statements of `TaskStore` without retries and recoveries.
- *Jobs.* The scheduler's thread is `at`, `todo`, `job` and `seen`; a caller
  between its SELECT and UPDATE is `call`.
- *Services.* Each module says in its heading what stands for what.

## What is checked

TLC, two workers.  Deadlock is not checked: runs are used up, and a queue with
nothing to do has nothing to do.

| Run | Instance | Shows | Distinct states |
|---|---|---|---|
| `worker_api` | 1 reviewed task, 2 runs in the API's process, 2 clients, 1 restart, 2 attempts | `TypeOK`; `ClaimConsistent`: status, claim and lease agree; `OnlyCancelAfterEnd`: nothing reopens a finished task; `PromiseKept`: `TaskWorker` implements `TaskPromise`, so a reviewed task succeeds only by approval | 904,702 |
| `worker_recovery` | 1 task, 2 worker processes and their parents, 1 client, 2 attempts, fair | `FencedOutcome`: a running task is completed or blocked only by the holder of its claim, and failed by it or by the recovery of a lost process that has read this very claim; `SucceededHasWork`: no success without a succeeded attempt; `RetryWithinBudget`: a failing run, and the recovery of a lost one, keep to `max_attempts`; `OrphanReclaimed`: a running task without a run is reclaimed; `CancelSticks`: a cancellation of an unfinished task wins for good | 149,247 |
| `worker_graph` | root with 3 children, one after another, width 1, 2 worker processes | `WidthRespected`, `DependenciesRanFirst` | 86,265 |
| `supervisor` | 2 supervisors, 1 task, 2 worker processes, limit 1 | `TypeOK`; `OnlyDeadWrittenOff`: a process is recorded as gone only if it is; `WithinMaxWorkers`: the limit holds across restarts while no lease was taken from a running supervisor; `PromiseKept`: `TaskSupervisor` implements `TaskPromise` | 894,343 |
| `graph` | root, 2 planned children, 2 replacements, 2 handlers with 3 calls, 2 replans | `EdgesAcyclic`: no circle, however replans overlap; `PlanFollowed`: no child and no replacement with edges of its own starts before what the plan put ahead of it; `OverStaysOver`: nothing brings back a cancelled or finished task | 716,561 |
| `jobs` | 1 job, 2 callers, 2 runs, fair | `TypeOK`; `NextRunKnown`: a waiting job has a time, one that is over none; `RunsWereDelivered`: the count never runs ahead of the deliveries; `DueJobFires` | 115,381 |
| `turn` | 1 turn, 2 rounds, 2 calls, fair | `RunsOnlyApproved`: a tool that has to be asked for runs only after its own approval; `NoToolBesideTurn`: a turn goes on beside a running handler only if it is cancelled; `CancelStopsWork`: a cancelled turn starts no handler and, its first decision and the repetition after a context overflow apart, requests none; `TurnEnds`: a turn ends though tools hang and nobody answers; `CancelEnds`: it ends without an answer if it is cancelled before its last decision | 12,651 |
| `turn_sessions` | 2 turns of one session, 1 round, 2 calls | `TypeOK`; `PairedCalls`: in what the provider is sent each call has exactly one result and each result its call; `OnlyOwnEntryCleared`: the end of an older turn leaves the younger one's entry | 439,605 |
| `services` | each part on the instance in `MCServices` | see below | 1,282,347 |
| `cancel_overwrites` | 1 task, 2 runs, 1 client | `FinishedIsFinal` is violated, see below | |
| `backfill_hangs` | 2 requests, fair | `BackfillAnswered` is violated | |
| `review_oldest` | 1 reviewer, 3 messages, limit 2 | `ReviewRecent` is violated | |

What `services` shows, part by part:

| Property | Part | It says |
|---|---|---|
| `LedgersMatch` | memory | index, history and accepted candidates account for the facts, in spite of overlapping calls |
| `PlanRunsAgree` | todo | one item in progress at most; an archived run is completed just if its items are, unless a call overlapped the archiving |
| `LoopGuarded` | loop | no call is tried more often than the limit on an unchanged workspace, none is stopped on a changed one; a file that changed since the last attempt is read before it is edited |
| `EditsKnown`, `ResumesWhereLost` | file | of the recorded edits among the oldest `ArtifactLimit` artifacts when its context was built, nobody else having written before they were recorded and the file not being too big to hash: an attempt that found the file as such an edit left it does not edit it with that tool again, and one that found it different reads it before it edits it; it is told to go on where the last one was lost |
| `TextsFaithful` | compaction | what a summary covers it has folded in, a call is not parted from its result, summary and recent turns are the whole conversation |
| | sessions | a title or a soul the user wrote is not replaced by an automatic one, unless the thread that writes that one had chosen it before the user wrote (`met`) |
| | recall | the messages of the session come first and all are found; nothing is neither in the summary nor recalled; the best item is found |
| `ReportsFaithful` | deployment | the status says what is at work, no process is left, a cancellation is heard |
| | bus | order and uniqueness of events; none missing unless a queue was full |
| | review | a job that is said to run has a review at work; its row tells of one review; no message is reviewed twice |
| | settings | an update leaves other settings and files alone; the runtime works with what is on disk |
| `CalendarRight` | calendar | the next run is the first moment that matches, none is skipped, over 240 moments of a small calendar with months of 28, 30 and 31 days |
| `PlannedWorkRight` | policy, plans | a worker's tools are within its profile, an action that is not asked for is covered by policy or an approval that has not expired; a graph `validate_graph` lets through can be run to its end |

### Bounds

- `Runs`: how many `_run_task` invocations there are, hence how often a task is
  claimed.  Two runs give a late run beside the current one, an unclaimed second
  execution and a successor after a recovery.
- `Clients`: calls in progress at a time; each client calls as often as it likes.
- `Watched`: both runs of `worker_recovery` and `worker_graph`, so that the
  recovery of the first meets a second one that has claimed the task since, or is
  about to; `worker_api` has the runners without it.
- `MaxAttempts` 2 has a retry and a last attempt; the recovery run can exceed it.
- `MaxRestarts`: restarts of the API's process.  A restart loses the recovery's
  scan as well: with `Local = Runs` the recovery loop lives in that process, and
  instances with `Local = {}` have no restarts.
- `Width` 1 with three children (two of them startable at once) is the smallest
  graph in which the gate refuses.
- Two supervisors give one that is overtaken in the middle of a tick; two worker
  processes of one task a lost one and its successor, with the limit at 1.
- The graph has two planned children, the smallest with a dependency, and two
  replacements: two replans that overlap, or one after another.  `MaxTries` 1 and
  `MaxCalls` 3 bound claims and calls.
- One job is enough, since jobs share nothing but the scheduler's list;
  `MaxRuns` 2 has a run that is repeated and a last one.
- Runs that live in the same kind of process are symmetric, clients and
  supervisors are too; the runs with liveness use no symmetry.
- `MaxToolIterations` is the program's own limit: 2 has a first, a last and a
  refused round.  `MaxCalls`: two calls in a decision give one that is done and
  one that is left over when the turn stops.
- `PolicyOf`: in `turn` every kind of call; in `turn_sessions` one of the two
  turns has tools (refused, asked for, `skill_view`) and the other none, which
  is enough for a message that comes in between and for a later turn that loads
  what an aborted one left.
- The services have two threads each, two facts or items, two to five calls or
  messages: enough for one call to read, another to write, and the first to write
  after it.  Of compactions, what follows a race with a reset is left out.

### Fairness

Weak fairness of a run's next step (a thread that is alive is scheduled), of the
second half of a call, of the recovery's two halves (`_supervisor_loop` and the
external supervisor's tick come round for as long as they live, and log what
fails) and of the expiry of a lease nobody renews (the clock).  Nothing is
assumed of submissions, calls, heartbeats, crashes, of a parent's recovery of its
lost process (it may be gone itself) or of leases that are being renewed.  So it is *not* claimed that a queued task is ever started: with
`AMADEUS_TASK_RUNNER` set to an in-process runner nobody polls the queue.

For a turn: weak fairness of its own thread alone.  What it waits for comes to
an end by the code's own time-outs: the provider's request and stream, the 30
seconds of `wait`, the tool's `timeout_seconds`; a write to the client returns or
raises.  Nothing is assumed of answers, cancellations and handlers: a handler
may never start and never return.

For the jobs: weak fairness of the scheduler's tick, which comes round every
second, and of each job's clock; strong fairness of the two halves of a claim: the
process does not crash in every single tick, and the store does not refuse every
one.  `TickAborts` and `Restart` may otherwise happen any number of times.

For the backfill: every thread is scheduled, and a lock that is let go is given
to whoever waits for it.

### What the documentation says and the code does not do

- `cancel_overwrites`: `cancel_task` (`memory.py:4492`) tests the status in a
  SELECT and updates `WHERE id = ?`.  A run that completes the task in between
  has its `succeeded` overwritten, while `docs/event-protocol.md:580` speaks of
  active tasks and `tests/test_memory.py:1235` expects a finished task unchanged.
- `backfill_hangs`: `start` (`memory_embeddings.py:151`) calls `status` inside
  `with self._lock`, and `status` takes the same `threading.Lock`: the request for
  a backfill is never answered, nor is any that asks for its status after it.
  `docs/project-status.md:456` lists it as a manual control of the settings.
- `review_oldest`: a review reads `load_detailed(limit=40)` (`agent.py:1454`),
  which is the *oldest* forty messages of the session (`memory.py:1756`), and
  records the newest as covered; `docs/project-status.md:450` speaks of recent
  messages.

Of the following, the property stands in its module and TLC violates it, but no
run is kept for it:

- `AttemptsWithinMax`: `recover_stale_running_tasks` does not look at
  `max_attempts`; `docs/event-protocol.md:575` and `:576` say a lost attempt goes
  through the normal retry or terminal failure state machine.
- `GrantIsOneRun`: `retry_task` keeps the checkpoint, and with it the approval
  `docs/implementation-notes.md:146` grants to one run.
- `RegistryCleared`: `run_turn` yields its first event (`agent.py:815`) before the
  `try` whose `finally` clears the registration, so a client that is gone by then
  leaves the session with a running turn; `docs/event-protocol.md:535` says the
  entry is cleared when the generator finishes.
- `HistoryAdjacent`: a session can have several clients
  (`docs/event-protocol.md:27`) and no lock keeps it to one turn, so saved
  messages interleave.  `_sanitize_tool_pairs` (`agent.py:2619`) keeps their
  order, and the provider is sent a user message between a call and its result,
  while `docs/project-status.md:459` calls the reloaded messages provider-safe.  A
  `skill_view` that is not the last call of its decision does the same inside one
  turn.
- `PlanAlwaysFollowed`: a replan whose edges cannot be added cancels its
  replacement (`orchestrator.py:719` to `:872`), and that one may be replaced in
  its turn: the second replacement copies the edges of one that has none and
  starts before what the plan put ahead of it, while
  `docs/agent-maturity-upgrade-plan.md:1089` says a replan copies the upstream
  dependencies.  `PlanFollowed` sets these replacements (`stray`) aside.
- `ReplansBounded`: two replans that overlap both count the replacements before
  either adds its own, so `maxReplans` (`docs/project-status.md:502`) is exceeded.
- `LossHitsOwnClaim`: `_recover_process_loss` (`workers.py:1160`) reads the claim
  the task has by then, which may be a successor's: the successor goes on without
  its task, which is requeued or failed under it.  `FencedOutcome` of `TaskWorker`
  has the same step and says what holds of it: the recovery of a process hits the
  claim that it has read and none that was made after.
- `OverrideHeard`: the override of a resume policy is set on a copy that was made
  for one context (`workers.py:1953`) and looked for in the stored artifact
  (`memory.py:2883`); `docs/project-status.md:531` says it can be set and cleared.
- `ReadyVectorsFresh`: a vector is stored with the hash of what the item says by
  then (`memory.py:5516`), not of what was encoded.
- `RejectionHolds`: an acceptance that read the candidate before its rejection
  still accepts it (`memory.py:6366`).

### Seen while modelling

The models have the following behaviours because the code has them.  No property
above excludes them.

- *Jobs.* `claim_scheduled_job` answers with the row even if its UPDATE matched
  nothing, so a job that was paused in between is fired; a pause that races a
  completion reopens the completed job; a failure overwrites a cancellation.
- *Graphs.* A replan can strand a task that depended on the replaced one; a
  replan that crashes leaves its replacement parked; children may start before
  their edges are written; `validate_graph` accepts edge types and statuses that
  `add_task_edge` refuses.
- *Plans.* A mirror that overlaps the end of a turn un-archives a run or loses an
  item; plan runs of worker turns are never finished; `save_todos` upserts by a
  global id.
- *Resumed files.* The context has the oldest eight artifacts; a file that was
  deleted cannot be created again in a resumed attempt; `skip_redundant` stops
  edits that are not redundant; a death between an edit and its artifact loses the
  policy; attempts of recovered tasks stay `running`.
- *Conversations.* The cut at `summary_source_max_messages` (`agent.py:1829`)
  drops the messages before it from summary and history; a reset that races a
  compaction brings back what was deleted; calls without a result at the fold are
  shown nowhere; an archived session still accepts turns; `update_role` never
  rewrites SOUL.md; a title that starts like an automatic one is taken for one.
  With `summary.minKeepRecentTurns` 0, which `server.py:84` takes, `POST
  /memory/compact` with `force` false during a tool call folds the call in before
  its result is saved: `_align_compaction_window_for_tool_pairs` looks at the
  message after the window, and there is none yet.  `docs/implementation-notes.md:119`
  says that a call and its results are not split; `SummaryFaithful` says so
  for instances that keep at least one turn.
- *Reviews.* A review whose request raises anything but `RuntimeError`, or whose
  error is longer than the column takes, leaves its job `running`.
- *Deployments.* Requests that overlap between `embeddings.py:110` and `:131`
  deploy twice, and a `ready` answer overwrites `running`.
- *Events.* `queue.Full` is raised in a publisher's thread when another publisher
  takes the place it has made; an event is dropped from a queue that was drained
  meanwhile.
- *Settings.* Overlapping updates of one file lose one of them; a crash between
  truncation and writing leaves an empty file; `POST /config` answers 400 after it
  has changed the API part (`server.py:1733`).
- *Recall.* The global fallback searches archived and worker sessions of every
  role; with an external provider the summary is dropped; more than five repeats
  of a question hide other matches; a better but older item can be missed.

## What is proved

### Tasks

`TaskWorkerProofs`, for all values of the constants that satisfy
`StoreAssumption` (finitely many tasks, `None` is no run, attempts and width at
least 1) and `WorkerAssumption` (constants have their types):

| Theorem | States |
|---|---|
| `TypeCorrect` | `Spec => []TypeOK` |
| `ClaimsAreConsistent` | `Spec => []ClaimConsistent` |
| `OutcomesAreFenced` | `Spec => FencedOutcome` |
| `OnlyCancellationAfterEnd` | `Spec => OnlyCancelAfterEnd` |
| `RetriesStayInBudget` | `Spec => RetryWithinBudget` |
| `DependenciesRunFirst` | `Spec => []DependenciesRanFirst` |
| `WidthIsRespected` | `Spec => []WidthRespected` |
| `SuccessHasWork` | `Spec => []SucceededHasWork` |
| `KeepsPromise` | `Spec => PromiseKept`, the refinement |

The argument.  `Typed` is `TypeOK` with two facts it needs to be inductive: a run
that has been submitted has a job, a call under way has a task.  `Consistent` adds
`ClaimConsistent`, whose inductive step rests on two lemmas: a claiming run never
goes back to its start (`ClaimantMovesOn`), and every exit from `running` clears
claim and lease together (`ReleaseConsistent`).  `StatusChanges` then lists every
way a status can change, with what the code had tested for it; the three action
properties follow from that list.  `RetryWithinBudget` also needs `SnapFresh` and
`LossFresh`: as long as the run holds the claim, or the row has the claim the
recovery of a lost process has read, the count they read is the count in the row,
because counts move only with a claim, and no run claims twice.  `OutcomesAreFenced`
does not say that the recovery spares a live successor: it does not.  `WidthRespected` is inductive given that the
worker never writes the checkpoint of a parked root; the proof counts the running
children with the cardinality theorems of the library.  `SucceededHasWork` needs
`Completing` (a run about to complete its task has recorded its attempt) and
`DoneStays` (a run that is over keeps the attempt it left).  For the refinement,
`holder` is `claim`, and each row step is mapped to a step of `TaskPromise` or to
a stutter.

### Turns

`AgentTurnProofs`, for all values of the constants that satisfy `TurnAssumption`
(turns belong to sessions, `None` is no turn, tools have policies, the limits are
natural numbers):

| Theorem | States |
|---|---|
| `TypeCorrect` | `Spec => []TypeOK` |
| `OnlyApprovedRun` | `Spec => []RunsOnlyApproved` |
| `ToolsWaitedFor` | `Spec => []NoToolBesideTurn` |
| `CancelledWorkStops` | `Spec => CancelStopsWork` |
| `OwnEntryOnly` | `Spec => OnlyOwnEntryCleared` |
| `ProviderSentPairs` | `Spec => []PairedCalls` |

The argument.  `TypeOK` is inductive because it says that a turn inside
`_execute_tool_call` has a call, and one that has calls left a round: so
`CallId` names an entry the broker knows.  `LoopFrame` and `CallFrame` say what a
step of one turn leaves alone; with them every invariant is a matter of the turn
that moves.  `HandlerInv` adds to `NoToolBesideTurn` that a handler that has only
been submitted is waited for; without it `HandlerStarts` could break the
invariant.  `ApprovedInv` adds to `RunsOnlyApproved` that "yes" in the broker's
table is on record in `said`, and that a turn that has read it is at the call it
was said of; the approval survives because a turn keeps its call until the result
is recorded.

`PairedCalls` needs two invariants.  `Saved`: every transcript is well formed (no
call is made twice, no call answered twice), and of each turn it holds no id of a
round the turn has not reached, nor a result for one of the calls it has left.
`Conversed`: so is every history, and there the calls of the turn's own round that
are left are the only ones without a result.  A result that is recorded, and a
decision that is saved, are therefore new wherever they are put, though other turns
write to the same transcript in between.  What joins the two is `SanitizeFits`: of
any well-formed transcript, cut anywhere, `_sanitize_tool_pairs` makes one with the
same calls, all of them answered.  It is proved by induction over the messages: the
induction is stated over a set of numbers (`Induction`), which the library's
well-foundedness of finite sets gives, and the recursive function in `Sanitize` is
first shown to exist (`JoinsExist`).

### Supervisors

`TaskSupervisorProofs`, for all constants that satisfy `SupervisorAssumption` (no
task under review, a positive limit) and `StoreAssumption`:

| Theorem | States |
|---|---|
| `TypeCorrect` | `Spec => []TypeOK` |
| `DeadAreWrittenOff` | `Spec => []OnlyDeadWrittenOff` |
| `LimitIsKept` | `Spec => []WithinMaxWorkers` |
| `KeepsPromise` | `Spec => PromiseKept`, the refinement |

The argument.  To `TypeOK` and `OnlyDeadWrittenOff` the invariant adds `Claimed`, a
task is claimed just if it is running, and by a process that has claimed once,
which the refinement needs to name the holder, and `Recorded`, what the registry
or a supervisor's memory has of a process is of one that was started.  A process that is dead stays
dead, so what was found out by an old read is still true when it is written.  For the
refinement a lemma for each kind of statement (`ReleaseSteps`, `FinishSteps`, ...)
maps it to a step of `TaskPromise` or to a stutter, and the actions cite it.
The limit of workers is counted over all supervisors together: `Sole` says that as
long as no lease was taken from a supervisor that is up only the owner is up,
`Entered` that what is about to be written was read from a complete record, and
`Room` that there is a place for the process about to be registered, which lasts
from the count to the registration because nobody else starts one meanwhile.

### Graphs

`TaskGraphProofs`, for all tasks, plans and callers that satisfy
`GraphAssumption`:

| Theorem | States |
|---|---|
| `TypeCorrect` | `Spec => []TypeOK` |
| `DependenciesNeverCircle` | `Spec => []EdgesAcyclic` |
| `OverTasksStayOver` | `Spec => OverStaysOver` |
| `PlanIsFollowed` | `Spec => PlanFollowed` |

The argument.  Acyclicity is not inductive by itself: two replans rewire the same
edges from what each has read.  `Shaped` says instead that some map takes every
replacement to the planned child it stands for, and every edge to an edge of the
plan, which was acyclic when it was applied; a circle of edges would be a circle of
the plan.  Rewiring keeps the map, a new replacement extends it.  `Unplanned` and
`PlannedAreOrigins` make it begin.

`PlanFollowed` needs that map as a history variable, `stands`.  `PlanInv` says of
it that a replacement stands for a planned child that is over (`Lineage`), that an
application still has to add what edges are missing (`Building`), and, once the
edges are linked, that every task that may start waits for somebody in the place
of everything its planned child depends on (`Linked`, with `Covered`).  A worker
starts a task only if what it waits for has succeeded, and what has succeeded is
not replaced.

### Jobs

`ScheduledJobsProofs`, for all jobs, callers and limits of runs
(`JobsAssumption`):

| Theorem | States |
|---|---|
| `TypeCorrect` | `Spec => []TypeOK` |
| `WaitingJobsHaveTimes` | `Spec => []NextRunKnown` |
| `CountedRunsWereDelivered` | `Spec => []RunsWereDelivered` |

The argument.  `RunIsDelivered` ties the count that is about to be written, from a
row read earlier, to the deliveries made; `TickIsOfRows` and `CallsAreOfRows` say
that what the scheduler and the callers remember is of jobs that have rows, which
are never deleted.

### Services

`LongTermMemoryProofs` and `FileResumeProofs` prove their part by itself;
`ServicesProofs` takes them over and has the invariants of the others, for all
constants that satisfy `ServicesAssumption`, which is what each part assumes of
its own (of the plans a model may answer with, that they have the shape of
`GraphTaskSpec` and `GraphEdgeSpec`, `RawGraphs`; of what the index finds, that it
has the shape of its rows, `RecallAsked`; of moments, that the calendar lasts,
`CalendarAsked`):

| Theorem | States |
|---|---|
| `LedgersAccountForFacts` | `Spec => []LedgersMatch` |
| `EditsAreKnown` | `Spec => EditsKnown`, of the recorded edits a context has |
| `ResumedWhereLost` | `Spec => []ResumesWhereLost` |
| `RunsAgreeWithPlans` | `Spec => []PlanRunsAgree` |
| `TurnsAreGuarded` | `Spec => []LoopGuarded` |
| `DeploymentIsTold`, `ReviewsAreTold`, `SettingsStayKept`, `StreamsAreFaithful` | the conjuncts of `ReportsFaithful` |
| `ReportsAreFaithful` | `Spec => []ReportsFaithful` |
| `WorkIsPlannedRight` | `Spec => []PlannedWorkRight` |
| `UserTextsStay` | the part of `TextsFaithful` that is about sessions, with its exception (`met`) |
| `SummariesAreFaithful` | the part of `TextsFaithful` that is about compaction |
| `TextsAreFaithful` | `Spec => []TextsFaithful` |
| `NextRunsAreNext` | `Spec => []CalendarRight` |
| `TypeCorrect` | `Spec => []TypeOK`, the types of all parts |

The arguments, part by part:

- *Memory.* A call that is between its read and its write knows a row that others
  may have replaced, deleted or reset meanwhile.  `Ledgers` says what the tables
  say of each other after every statement; `RowsStay`, that a row to be replaced or
  deleted is still there, deleted or not; `Accepting`, that what an acceptance has
  read is what the candidate says, unless its session was reset, and that the item
  it is about to name was given that fact at some time.  Only what an item *was
  given* survives other calls, so `Accepted` is about its history.
- *Files.* `CallHolds` and `ManifestsHold`: what a call wrote is in the file until
  somebody else writes, and the manifest of an edit nobody raced is of what it
  wrote.  `PoliciesHold`: a run has the policies of the artifacts it was shown, by
  the file it found.  An edit of what is known would therefore need a policy that
  forbids it.  `LostIsKept` and `AttemptIsLast` carry the phase from the lost run
  over any number of recoveries to the next context.
- *Plans.* `CallsAreNormal`: what a call is about to write has one item in progress
  or is checked when it is written; `EndsAreFresh`: what the end of a turn has
  read is so until another call overlaps it.
- *Guardrail.* `CountsMatch`: each of the four counters is the number of entries of
  the log that add to it, for every signature; `RefreshedWasRead`: the epoch kept
  for a path is that of a read in the log.  The number of equal calls in the log is
  then a counter the guardrail has looked at.
- *Deployment.* As long as no two requests raced: one deployment is at work
  (`SoleDeployment`), a child that lives is the registered one or is about to be
  (`ChildrenKnown`), a worker that was cancelled comes to a check (`CancelSeen`).
- *Reviews.* `JobsApart`: every review has a row of its own; `AloneIsAlone` and
  `AsofGrows`: no automatic review works beside one that is alone, and the last
  message of those that are alone goes up.
- *Settings.* `FilesAreSaid`: of a file without a clash one request at most has
  read it, what it has read is what was last written, and nobody else writes.
  `Follows`: without overlaps the runtime has what was written, but for the
  setting the one request is about to apply.
- *Events.* What a client has got and what is in its queue is one sequence:
  `Ordered`; `Counted`, no event is younger than the last of its publisher; and
  `NothingMissed`, until somebody found the queue full.
- *Policies and plans.* Tools and decisions are functions, so the invariant is a
  lemma about each.  A plan `validate_graph` lets through has no circle, for its
  depth-first search is shown to say so: the recursive `visit` exists (a least
  fixed point over pairs of what was seen and where it is), a circle, if there is
  one, has a smallest one, and `visit` goes round that.  A graph without a circle
  has a child nothing holds up, whatever has been run (`PlanRunsThrough`).
- *Sessions.* What a call is about to write as an automatic text it chose when the
  text was not the user's, and its write says so again; a user who writes between
  the two is what `met` excepts.
- *Compaction.* What a compaction has read stays true of the conversation, as
  messages are only appended (`ReadHolds`), up to a reset, which `Forgotten` is
  about.  What it leaves does not begin with a result (`SumEnds`), so that no call
  is parted from its result, and but for calls without one it is no more turns than
  a request shows (`RestShown`): what is folded in is a window (`WindowIs`) that
  ends before the turns to be kept, and those fit (`FitKeep`).  Both are choices of
  a least or greatest message, which exists as there are finitely many.
- *Recall.* Each search gives the first n of a set, and who is not among them has n
  before it (`FirstHas`): either everything found is there or n of it are
  (`EarlyAreAll`, `EarlyAreEnough`).  The rest is counting: what the repetitions of
  the question can displace is no more than they are.
- *Calendar.* Of two months in a row one has 31 days, so every day of the month
  comes within a hundred days and every day of the week within seven (`DayComes`,
  `WeekdayComes`): the 370 candidates of `_next_matching_time` are enough, and the
  first that matches is the next run (`FirstMatches`, `CronIsNext`).  Months are
  told apart by their first days, which grow (`StartsGrow`).

- *Types.* They are part of the invariants above, but for the conversation after a
  race, which `TalkTyped` adds: a summary's content is of messages it covers, in
  what a compaction has read as well.

What the proofs found: selections with overlapping guards, where the choice TLC
makes is not what the text says, are now disjoint; the instance of the guardrail
named its policies differently from the module, so that no file had one and half
of `LoopGuarded` said nothing; a weekly schedule could have named no day at all, by
a precedence nobody had meant; and assumptions no instance had been without are now
stated (`None` is no deployment, no policy and no number, a review reads at least
one message, of two months in a row one has 31 days).

### What stays with TLC

The five liveness properties (fairness and ENABLED are out of the prover's reach)
and the three violations.

## What is not modelled

In the turns: the wording of prompts, harness events, the streaming of deltas, the
audit log.

In the tasks: texts, results, events and priorities; the time-outs behind `parked`
and `lease`, of which only order matters; how the supervisor and the graphs meet
(each has its own instance of `TaskStore`); the texts of planning and synthesis.

In the memory: schema migrations, which run before anything else does; the older
todo lists; ranking formulas beyond what decides the order; the patterns that mark
a text as unsafe and the expansion of queries, which are data.

The bridge, the desktop and its UI, audio, Live2D, model clients, skills, MCP, the
OS sandbox, the built-in tools and the scripts: devices, remote services and
presentation, with no state that several actors of the runtime rely on.  Each is
listed with its reason in `PROJECT.json`.

## Plan

1. `TurnPromise`, what a client may rely on from the events of a turn, refined by
   `AgentTurn`, and a bridge that resubscribes to `RuntimeEventBus`.
2. The composition of `TaskGraph` with the retries and recoveries of `TaskWorker`.
