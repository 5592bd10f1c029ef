# TLA+ verification of the agent engine

The repository is a fork of the Codex agent engine (`codex-rs/`, Rust) with a
TypeScript front end beside it (`deepseek-harness/`). The engine is where
the concurrency is: a session is an asynchronous program that accepts
operations, runs model turns as spawned tasks, exchanges mail with other agents
and may be interrupted, suspended or shut down at any await. This directory
models that core and three of the concurrent services around it in TLA+, checks
them with TLC on small instances, and proves part of them with TLAPS for every
instance.

Contents:

1. the system and its parts
2. the modules and how they correspond to the code
3. runs, bounds and results
4. where the code and its documentation disagree
5. proofs
6. what is left out, and the plan

## 1. The system and its parts

### Session core (`codex-rs/core`)

| part | state it keeps | operations | who calls it |
|---|---|---|---|
| submission loop (`session/handlers.rs`) | the queue of `Op`s | one handler per `Op`, one at a time | clients through the thread |
| task lifecycle (`tasks/mod.rs`, `state/turn.rs`) | `active_turn: Mutex<Option<ActiveTurn>>` | `start_task`, `spawn_task`, `maybe_start_turn_for_pending_work`, `abort_all_tasks`, `abort_turn_if_active`, `on_task_finished` | the loop, realtime routers, the guardian, the tasks themselves |
| input queue (`session/input_queue.rs`, `session/inject.rs`) | per turn: pending items and delivery phase; per session: the mailbox | drain, defer, accept, extend, take, clear, inject | everyone above, and the turn loop |
| routing (`session/turn_input.rs`, `turn_suspension.rs`) | a reservation in the slot | start or steer, steer, start if idle, recover, suspend | the loop, realtime conversations, extensions |
| turn loop (`session/turn.rs`, `tasks/regular.rs`, `tasks/compact.rs`) | the task's own input, the conversation | prepare, record, sample, follow up, roll over, run Stop hooks | its spawned task |
| agent registry (`agent/registry.rs`) | the tree of agents by path, the index from thread to path, the count of spawned agents | reserve a slot, reserve a path, commit, drop, release | spawn, resume, close and send tools of all the agents of one user session |
| residency (`agent/control/residency.rs`) | loaded agents in least-recently-used order, slots pending | reserve (evicting), commit, touch, forget | V2 spawns and messages |
| execution limiter (`agent/control/execution.rs`) | the number of running turns | check the capacity, take and drop a guard | V2 spawns and messages, every turn |
| thread manager (`thread_manager.rs`) | the map from thread id to running session | insert, look up, remove, remove if it matches | all of the above, and the app server, which unloads idle threads |
| unified exec (`unified_exec/`) | process store, output buffers | start, write, poll, prune, terminate | tools, shutdown |

What makes the session core right: a turn that runs can be found, steered and
stopped through the slot; a turn ends once, and whoever waits for the end gets
it; input a client handed over is in the conversation or was visibly refused or
dropped; mail wakes an idle session; nothing runs after shutdown. What makes it
hard: the slot's lock is released between the steps of each operation, four
kinds of process do those steps, and a task that finishes and a caller that
aborts it look at the same slot.

What makes agent control right: registry, residency list, limiter and thread map
describe the same agents; what is reserved is given back once; a limit holds; an
agent that is only unloaded can be reached again. What makes it hard: the four
have a lock each, every call takes them one after the other with awaits in
between, a thread id survives its session, and the app server changes the map
without telling the others.

### Modelled services around the core

| part | state it keeps | operations | who calls it |
|---|---|---|---|
| request serialization (`app-server/src/request_serialization.rs`) | a queue per key, its drain task and its `Notify` | enqueue, drain, admit late reads | the message processor, the plugin-change callback, `plugin/reconcile` |
| connection gate (`connection_rpc_gate.rs`) | whether a connection accepts, the handlers inside | run, close, shutdown | every request of the connection, `connection_closed` |
| memory jobs (`state/src/runtime/memories.rs`) | job rows with token, lease, retries; outputs; the selection of the last consolidation | claim, heartbeat, report, prune, pollute, delete, reset | startup pipelines of several processes, thread operations |
| memory workers (`memories/write/src/phase1.rs`, `phase2.rs`) | claims in hand, the workspace directory and its git baseline | extract; select, sync, diff, consolidate, reset the baseline | one pipeline per started session |
| code-mode cell (`code-mode-runtime/src/cell_actor/`, `session_runtime/`) | `CellState`, the observer, undelivered output, whether the script is paused | execute, observe, terminate, shutdown | tools of a turn, the session |
| script thread (`code-mode-runtime/src/runtime/`) | where V8 stands, its command and control channels | run, pause at the pending frontier, resume, end | the cell's actor |

What makes them right. Queues: requests of a key run in order, writes alone,
nothing is forgotten, nothing runs for a connection that has been cleaned up.
Memory jobs: one worker owns a job, a late one cannot publish, a dead one does not
block the others, what was deleted or polluted is forgotten. Cells: one outcome
told to everybody, no output lost, no wake-up lost, everything ends when the cell
is terminated. What makes them hard: a drain task that ends races the request that
would have kept it; a lease can run out under a worker that still works, and two
databases and a directory cannot be changed together; a script's thread waits on
one of two channels, and the actor has to know on which.

### Not modelled

* **Extensions** (`ext/queue`, `ext/goal`): start turns on an idle session.
* **Remote code mode** (`code-mode`): a driver that survives a lost connection.
* **App server** (`app-server`, `app-server-transport`): thread status, a
  segmented remote-control transport.
* **Exec server** (`exec-server`): detachable sessions with expiry and resume.
* **Mixture of agents** (`moa`, `core/src/session/moa_caller.rs`): parallel
  reference-model calls that give one turn a piece of guidance.
* **Rollout and history** (`rollout`, `core/src/context_manager`): a background
  writer with flush barriers, and the normalisation of call/output pairs.
* Parsers, policy, login, sandboxing, user interfaces: little shared state.

`PROJECT.json` lists every part with its sources and its status.

## 2. Modules

### `SessionTurns.tla`, `SequentialSession.tla`

One session. Processes are `Loop` (the submission loop), `Routers` (realtime
conversations, which submit text off the loop), `Guard` (a guardian
interruption in a task of its own) and the members of `Turns`: a turn id names
the task that is spawned for it. `pc[p]` is where a process is, `loc[p]` its
local variables. One action is the code between two awaits that other processes
can observe.

| variable | in the code |
|---|---|
| `active` | `Session.active_turn`; `ts = None` is `Option::None`, `task = None` a slot that is reserved only |
| `tstate[s]` | a `TurnState`: `pending_input.items` and `mailbox_delivery_phase`; an identity `s` because the `Arc` outlives the slot |
| `mailbox` | `InputQueue.mailbox_pending_mails` |
| `history` | the items recorded into the conversation, in order |
| `status` | `agent_status`, as `agent_status_from_event` sets it |
| `cancelled` | the turns whose cancellation token is cancelled |
| `terminal[t]` | `TurnComplete` and `TurnAborted` events sent for `t` |
| `spent` | turn ids and turn states handed out |
| `fate`, `posted`, `suspended` | ghosts: what became of an item, the order mail was sent, turns taken from the slot by a suspension |

| actions | code |
|---|---|
| `StartTaskDrain`, `Adopt`, `Extend`, `Install` | the four critical sections of `start_task` |
| `CheckPendingWork`, `ReserveForWork`, `ReserveRefused`, `GatherPending`, `HandOver` | `maybe_start_turn_for_pending_work_with_sub_id`, which then runs `start_task` |
| `AbortAllTasks`, `AbortNothing`, `AbortTurnIfActive` | the two aborts up to the slot being taken |
| `KillTask`, `ReportAborted`, `WipePending` | `handle_task_abort`, then `clear_pending` and what the reason asks for |
| `StartOrSteer`, `Steer`, `StartIfIdle`, `SettleIdleStart` | `turn_input.rs` |
| `CompactOp`, `Interrupt`, `Communicate`, `Shutdown`, `ExitLoop`, `Suspend`, `FinishSuspend` | the handlers of the loop; `FinishSuspend` is the flush and the closing of the writer, after which the loop exits or, if one of them failed, goes on |
| `Inject` | the four injections of `inject.rs` |
| `Begin` ... `RunAgain` | `RegularTask::run` around `run_turn`, `CompactTask::run` |
| `CheckCancelled`, `FinishTake`, `FinishReport`, `FinishClear` | the end of the spawned future and `on_task_finished` |
| `GuardianDenial` | `record_guardian_denial` |

Where steps of the code are merged, the reason is that nobody can act in between
or that the order makes no difference to what anyone sees:

* `get_pending_input` takes the slot's lock and then the mailbox's. What it read
  under the first is already taken out when it waits for the second.
* Taking a task out of the slot and cancelling its token are one step: until
  the token is cancelled the task only has to pass `CheckCancelled`, and then
  finds the slot without its task.
* `KillTask` is both outcomes of the `select!` (done, or the grace period is
  over). A task that is in the middle of a poll when it is aborted runs to its
  next await in the code; in the model it stops at once.
* `FinishReport` saves the pending input and sends the terminal event. The
  handle is detached by then, so the task cannot be killed in between.
* `start_if_idle` looks at the mailbox and at the slot in one step. The second
  look at the mailbox is kept, although mail is enqueued by the loop only.
  A plan-mode refusal before the reservation has the outcome of one after it.
* The early return of `handle_task_abort` for a cancelled token cannot be
  reached: a token is cancelled by whoever took the task out of the slot.

Abstractions of data: items are model values; what a hook, the model or the
settings decide is a nondeterministic choice among the outcomes the code tells
apart; `MaxSamples` bounds follow-up samplings; `Turns` and `States` are finite
pools of fresh identities.

`SequentialSession` is what a session promises where every start reserves the slot: a
turn begins when the one before it has ended, the conversation only grows, and mail
joins it while a turn is there to read it, once and in the order of posting.
`ImplementsSequentialSession` is the refinement: the current turn is the one whose task
exists and has not reported its end, the ended turns are those with a terminal event,
`posted` and `history` are themselves.

### `AgentRegistry.tla`

The registry that all the agents of a user session share, and the operations that
use it. A caller is a tool call of some agent or a task of the app server;
`call[c]` is where it is and what it has in hand. One action is what a caller does
between two points at which another one can see the registry or the thread map.

| variable | in the code |
|---|---|
| `tree`, `threadPaths` | `ActiveAgents.agent_tree` and its index, under one mutex; the key of an agent without a path is its thread |
| `total` | `total_count`, an atomic beside the mutex |
| `loaded` | `ThreadManagerState.threads`: thread id to session, 0 if absent |
| `alive`, `asked` | sessions whose loop runs, sessions with a `Shutdown` submitted |
| `stored` | the key under which a thread's rollout can be resumed |

| actions | code |
|---|---|
| `Spawn`, `Resume` | `spawn_agent_internal`, `resume_single_agent_from_rollout` up to `reserve_spawn_slot` |
| `Prepare`, `Create`, `CreateFails`, `Commit`, `Tell` | the rest of the two: metadata and path, `finalize_thread_spawn`, `SpawnReservation::commit`, first input |
| `Close`, `CloseFind`, `CloseAsk`, `CloseWait`, `Remove`, `Release`, `Uncount` | `close_agent`, `shutdown_live_agent`, `release_spawned_thread` and the `fetch_sub` after its mutex |
| `Send`, `SendDone` | `send_input` and `handle_thread_request_result` |
| `Unload`, `UnloadDone` | the app server's `unload_thread_without_subscribers` with its time-out |
| `Terminate` | the session's loop ends |

Left out: nicknames; the root agent (registered once, never counted);
`restore_v2_agent_metadata`, which runs before any call can. The lookups at the
head of a call are one step. Sessions are numbered in the order their starts
begin; `MaxSessions` bounds how many there are. The early
return of `close_agent` when the state database fails is a stuttering step: it changes
nothing that is modelled. Calls are not aborted here (see `AgentResidency`):
an aborted start drops its `SpawnReservation`, which is what `CreateFails` does.

### `AgentResidency.tla`

V2 agents: the residency list, the limiter and the thread map, with sessions
reduced to what callers can tell of them.

| variable | in the code |
|---|---|
| `residents`, `pending` | `V2ResidencyState` |
| `active` | `AgentExecutionLimiter.active` |
| `loaded`, `known` | the thread map; threads with metadata in the registry |
| `channel`, `mailbox`, `phase` | a session's submissions, its queued mail, and its status: `fresh` is `PendingInit`, `turn` a running turn, `done` a status that allows unloading, `closed` is `Shutdown` |
| `halted` | threads whose history ends in an interrupted turn, which gives a reloaded session a final status at once |
| `sent`, `seen`, `owner`, `strayed` | ghosts: accepted messages, messages a turn took up, the thread of a session, threads that an aborted call had in its hands |

| actions | code |
|---|---|
| `Reserve`, `Scan`, `Check`, `Ask`, `Stop`, `Drop` | `reserve_slot` and `try_unload_one_resident`: reserve, or pop a candidate, look at it, shut it down, await it, remove it, try again |
| `Spawn`, `Message`, `Touch`, `Load`, `LoadFails`, `Commit` | `spawn_agent_internal` and `ensure_v2_agent_loaded` |
| `Send`, `Submit`, `RemoveDead`, `Forget`, `Release` | `send_inter_agent_communication` and the clean-up after `InternalAgentDied` |
| `Abort` | `tools/parallel.rs`: the turn that made the tool call is cancelled, and the call's future is dropped at the await where it is |
| `Unload`, `UnloadDone` | the app server, as above |
| `Deliver`, `Drain`, `EndTurn`, `Wake`, `Terminate` | the session: mail from the channel, a turn with its guard, shutdown |

A turn gives back its guard in the step in which its status becomes final; in the
code the guard goes with the task a little earlier or later, and a caller that reads
the limiter in between gets an answer it could have got a moment before or after.
`Unload` submits one `Shutdown` at a time (a bound). A message is
sent at most once, so what became of it can be told.

An aborted call gives back its pending slot (the `Drop` of `V2ResidencySlot`) and
nothing else. If it had popped a candidate, or loaded an agent and not yet committed
it, that thread is in `strayed` from then on; `MaxStrays` bounds how many there are.
`Terminate` is the loop at `Shutdown`: it interrupts the turn, and like every
interruption this one starts the next turn when trigger mail is waiting. That turn
takes a guard and outlives the loop, so `Drain`, `Wake` and `EndTurn` do not ask
whether the session is alive.

### `RequestQueues.tla`, `SerializedAccess.tla`

The app server's request queues and connection gates. A request is a number in the
order of arrival; a drain task and the `Notify` of its queue carry the number of the
request that created the queue.

| variable | in the code |
|---|---|
| `map` | `RequestSerializationQueues.inner`: key to queue; `owner = 0` if the key is absent |
| `permit` | the permit stored in a queue's `Notify` |
| `drain` | the spawned drain tasks: where each is, and the requests it polls |
| `req` | each request: connection, key, access, how far it is, what its handler awaits |
| `gate` | each connection's `ConnectionRpcGate` and how its closing ended |

| actions | code |
|---|---|
| `Receive`, `ReceiveUnserialized` | `dispatch_initialized_client_request`, with `enqueue` |
| `EffectivePluginsChange`, `PluginReconcile` | background work queued under `Global("config")`, in the second case awaited by a handler |
| `TakeBatch`, `RemoveQueue`, `Notified`, `AdmitReads` | the critical sections of `drain` |
| `PassGate`, `StoppedAtGate`, `Finish`, `Panic` | `QueuedInitializedRequest::run` through `ConnectionRpcGate::run` |
| `Close`, `Shutdown`, `DrainTimeout` | the gate in `connection_closed` |

`SerializedAccess` is what all this promises: an exclusive request begins when every
earlier request of its key has left, a read when every earlier exclusive one has.
`ImplementsSerializedAccess` is the refinement: arrived, waiting and active requests
are read off `req`; queues, tasks, permits and gates do not appear.

### `MemoryJobs.tla`, `MCMemoryJobs.tla`

The memory pipeline of several processes over one database. A transaction is an
action. Time is what the queries compare: a lease has or has not run out, a
`retry_at` has or has not passed, a success is or is not within the cooldown.

| variable | in the code |
|---|---|
| `thread` | the thread rows: `updated_at`, `memory_mode` |
| `job`, `global` | the rows of `jobs` for a thread and for the consolidation; the owner stands for the token, `Gone` for one that nobody holds any more |
| `output` | `stage1_outputs`: source version, version selected for phase 2 |
| `workspace`, `baseline` | the outputs in the memory root and in its git baseline |
| `worker` | each pipeline: where it is, candidates seen, claims, inputs selected |
| `user`, `resets` | multi-step operations under way |

| actions | code |
|---|---|
| `Startup`, `Scan`, `Claim`, `Skip` | `prune_stage1_outputs_for_retention`, `claim_stage1_jobs_for_startup`, `try_claim_stage1_job` |
| `LoadRollout`, `mark_stage1_job_*`, `LoadFails`, `ExtractionFails`, `ReportRefused` | a phase-1 job and its three reports |
| `try_claim_global_phase2_job`, `SelectInputs`, `LoadInputs`, `SyncWorkspace`, `DiffWorkspace` | phase 2 up to the agent |
| `Heartbeat`, `ConfirmOwnership`, `ResetBaseline`, `mark_global_phase2_job_*`, `StepFailed` | the agent and what follows it |
| `Crash`, `Stall`, `GlobalStall`, `LeaseExpires`, ... | faults and passing time |
| `Pollute*`, `DeleteRollout`, `delete_thread_memory`, `DeleteThreadRow`, `clear_memory_*` | `mark_thread_memory_mode_polluted`, `thread/delete`, `memory/reset` |

Left out: usage counts, ranking, age filters and the number of outputs that are
selected (all are); the watermarks and retries of the global job, which no query
looks at. The second half of `job::failed`, for a row without an owner, never finds
one. A user does one thing to a thread at a time; polluting a thread again queues a
consolidation again, as the code does.

### `CellActor.tla`, `MCCellActor.tla`

One code-mode cell: the clients' calls, `CellState`, the actor task and the thread
that runs the script.

| variable | in the code |
|---|---|
| `ask` | the calls: observations with their mode, terminations; each with its oneshot answer, whose receiver may be dropped |
| `phase`, `cancelled` | `CellState` and its token |
| `committed` | whether the script's stored values went to the session |
| `actor`, `inbox` | the local variables of `run_cell`, its command channel |
| `js`, `events`, `control`, `commands` | the thread: where it is, the channel from it and the two to it |
| `tasks` | notification and tool callbacks in flight |
| `handed` | ghost: output given out in answers that end nothing |

| actions | code |
|---|---|
| `Execute`, `Observe`, `Terminate`, `Shutdown`, ... | `SessionRuntime` and `CellHandle` |
| `JsStart` ... `JsControl` | `run_runtime`, `next_runtime_command` and the script's callbacks |
| `Poll`, `SeeCancelled`, `YieldTimer`, the `On...` actions | the biased `select!` of `run_cell`, branch by branch |
| `SkipDropped`, `RouteToCompleted`, `RouteClosed`, `ObserverBusy`, `ObserveReadyFrontier`, `BecomeObserver` | the command branch with `route_observation` |
| `NotificationsDrained`, `ToolsDrained`, `CallbacksGone` | `finish_callbacks` |
| `CommitCompletion`, `DeliverCompletion`, `FinishTermination`, `Leave`, `Closed` | the end of a cell |

The biased select is kept: an iteration looks at cancellation, commands and the
deadline before it waits. Left out: `pending_initial_yield_items` (the actor passes
`None`), the ids of pending tool calls, and the case that every sender of the command
channel is gone, which cannot be while the session holds the handle. A `setTimeout`
of the script acts like a tool response (its two callbacks are not in the map). A cell that cannot be prepared is never
registered.

### The `_proofs` modules

`SessionTurns_proofs`, `SessionTurnsOwner_proofs`, `SessionTurnsReserved_proofs`,
`AgentRegistry_proofs`, `AgentResidency_proofs`, `RequestQueues_proofs`,
`MemoryJobs_proofs` and `CellActor_proofs` hold the theorems, see section 5.

## 3. Runs

A session may stay idle for ever, so no run checks for deadlock; the quiet
states are the subject of `SettledWhenQuiet`.

| run | instance | shows |
|---|---|---|
| `turns_users` | 2 turns, 2 user inputs (one of them a blocked prompt), queue-only mail, interrupts, compaction, suspension, shutdown | `TypeOK`, `SlotGuardsTask`, `TurnEndsOnce`, `ClosedTurnHoldsOnlyMail`, `SettledWhenQuiet`, `ItemsConserved`, and `Ownership`, the invariant of the proofs |
| `turns_wake` | 4 turns, trigger mail, queue-only mail, a steered or started user input, under `FairSpec` | `MailInOrder`, `NoOrphanedInput`, `EveryTurnEnds`, `TriggerMailDelivered`, and the refinement of `SequentialSession` |
| `turns_races` | 2 turns, a router that starts and steers, automatic and recovery starts, compaction over a running turn, injections, a guardian interruption, a durable sleep | `ItemsConserved`, where tasks are started over each other |
| `registry` | 2 callers, 2 threads, 1 path, limit 2, 3 sessions, every operation, under `FairSpec` | `IndexMatchesTree`, `PathsHeldOnce`, `NeverUndercounts`, `RegisteredWithinLimit`, `PathNeverRebound`, `CallsReturn` |
| `residency` | 2 callers, 2 threads, 2 messages, capacity 1, 3 sessions, with unloading and aborted calls that leave at most 1 thread behind, under `FairSpec` | `ResidencyInv`, `MessageHeldOnce`, `CallsReturn` |
| `queues` | 1 key, 1 connection, 4 requests (reads, writes, server work), panics, under `Spec` with fairness | `QueueInv`, `NoHandlerAfterShutdown`, `RequestsEnd`, `ShutdownReturns`, and the refinement of `SerializedAccess` |
| `memories` | 1 thread with 2 versions, changed, polluted, deleted; 2 workers, 1 fault, under fairness | `JobsInv`, `DeletedLeavesNoOutput`, `OutputNeverGoesBack`, `SuccessIsExtracted`, `BaselineSettles`, `ExtractionSettles` |
| `memories_leases` | 2 threads, 2 workers, 1 lease at a time, pruning, a reset, 1 fault, with symmetry | `JobsInv` |
| `cells` | 2 observations, 2 terminations, 2 output items, 1 call of the script, with symmetry | `ActorInv`, `OneOutcome`, `OutputConserved` |
| `cells_live` | 2 observations, 1 termination, 1 call, under fairness | `ClosesWhenCancelled`, `ObservationsAnswered` |
| `registry_v_leak` | an agent unloaded and resumed | violates `SlotsAccounted`, see section 4 |
| `turns_v_shutdown` | 2 turns, a user input, trigger mail, shutdown | violates `ShutdownIsLast`, see section 4 |

Properties that belong together are checked under one name:

| Name | Its parts |
|---|---|
| `SlotGuardsTask` | `RunningTaskOwnsSlot`, `TaskSlotFree`, `OneTaskRunning` |
| `TurnEndsOnce` | `TerminalOnce`, `TerminalIsLast` |
| `ResidencyInv` | `TypeOK`, `SlotsMatchHolders`, `GuardsMatchTurns`, `LoadedIsTracked`, `OvershootBounded` |
| `QueueInv` | `TypeOK`, `OneDrainPerQueue`, `EachRequestHeldOnce`, `LateReadJoins` |
| `JobsInv` | `TypeOK`, `RunningLimit`, `ClaimMatchesRow`, `OutputAccounted` |
| `ActorInv` | `TypeOK`, `PauseAgrees`, `QuietWhenClosed` |
| `ObservationsAnswered` | `YieldAnswered`, `FrontierAnswered` |

Bounds. Two turns are enough for one task to meet another one's slot; two user
inputs for a steer into the second turn; one trigger and one queue-only mail for
every way mail can be ordered or held back; one follow-up sampling reaches every
label of the turn loop. For the agents, two callers are enough for one to act
between any two steps of the other; two threads and one path let two agents want
the same key; a third session is a resume or a reload beside two first starts;
capacity 1 makes the second agent evict the first, and two calls that scan and load at
the same time reach the overshoot that `OvershootBounded` allows; one stray thread is
enough for every place where an abort can leave one. The messages of `residency` all
ask for a turn: queue-only ones are in the model and in its proofs, and would make this
run too long. Where ids run out a start
waits, which can hide nothing from a safety property except longer sequences; in
`turns_wake` four ids are more than the operations can use. Keys of the request
queues share nothing but the mutex, so one is enough; four requests are a batch, a late read, a write
between them and one after the queue was removed. One fault suffices to lose or
outlive a lease, two workers to take it over, two versions of a thread for a late
report to be the older one; every lease of `memories_leases` competes for one place.
Two observations are an observer and the next one; two items can be torn apart by an
answer; one call lets the script pause and go on once.

Fairness (`FairSpec`). A spawned future is polled until it is done, and a
handler that was begun is carried through: weak fairness of the steps of each
process, of each task's own steps, and of the end of an idle start and of the
loop's exit. No client has to submit anything, and no fairness asks the model to
stop calling tools: `MaxSamples` bounds that. For the agents: every call goes on,
because what it awaits is answered (loading ends or fails, a session that was asked
to shut down handles its channel and ends its turn). For the queues: tasks are polled
and handlers end; nothing makes the timeout of a closing connection strike, so
`ShutdownReturns` does not lean on it. For the memory jobs: sessions keep being
started, a worker that can go on does, time passes, what a user began is finished.
For the cells: the actor and the thread go on, timers fire, a script that was told to
stop by V8 stops, and callbacks honour their cancellation, as the delegate's
documentation asks; nothing is promised of scripts and clients, so `YieldAnswered`
and `FrontierAnswered` name what they need as premises.

Every property has a mutant in `PROJECT.json`: a definition changed the way a
plausible slip in the code would change it (a dropped guard, a forgotten reset,
a missing wake-up), under which TLC finds the property violated. The mutated
forms stand before the definition they replace.

## 4. Where the code and its documentation disagree

Two runs must find a violation; the findings in `PROJECT.json` quote the lines.

`registry_v_leak`: an agent that the app server has unloaded still has its registry
entry and its slot. Resuming it takes a second slot, committing replaces the entry,
and a close gives back one of the two. The counter stays too high for ever.

`turns_v_shutdown`: the abort at shutdown is an interruption, and an interruption
starts the next turn for trigger mail. That turn runs past `ShutdownComplete`, in a
session whose status says that it has been shut down and whose history has no writer.

Observations in the models that have no run of their own:

* A wake-up from `on_task_finished` reserves the slot, and a user start sees "no
  active turn" because there is no task yet. Both reach `start_task`, and its
  `debug_assert!` on the free slot can fail when there is trigger mail
  (`turns_users` checks `TaskSlotFree` without it).
* An interrupt that arrives while a finished turn is reporting takes the slot. It
  aborted nothing, so it does not look for pending work; the finished turn no longer
  finds its slot, so it does not either. Trigger mail waits for the next event.
* An injection between the saving of pending input and the clearing of the slot is
  answered with success and dropped.
* `is_unloadable` looks at status, turn and mailbox, not at the submissions the loop
  has yet to read; a message submitted just before the `Shutdown` of an eviction is
  seen by nobody.
* Between the end of an evicted session and its removal from the map, a message to it
  looks like one to an agent that died, and the clean-up erases the agent from the
  registry.
* `phase2.rs` says "Do not reset the workspace baseline if we lost the lock." The lock
  is confirmed first and the baseline reset after; a worker that stalls in between, or
  a `memory/reset`, comes between the two. The next consolidation repairs it
  (`BaselineSettles`).
* A handler that panics ends the drain task of its key; the queue stays in the map
  and later requests of the key wait. The liveness properties of `RequestQueues`
  exclude such keys.
* While the notifications of a script that has ended are drained, the deadline of its
  observer is not looked at.
* `shutdown_live_agent` finds a session, flushes it, and then sends the `Shutdown` by
  thread id. If another close or a clean-up of the same agent removes the id in
  between (it waited for an earlier session that has been unloaded and resumed since),
  the send fails and the session is awaited all the same: the close does not return.
  `CallsReturn` of `AgentRegistry` names this exception (`Stranded`) and says that no
  other call hangs.
* `abort_turn_if_active` empties the slot before the task has stopped, and the
  guardian calls it from a task of its own, so the next turn may start meanwhile
  (`docs/protocol_v1.md` says at most one task runs).
* When the flush or the closing of the writer fails after a suspension has cancelled
  the turn, the loop goes on (`turn_suspension.rs` wants the worker to keep the
  thread), but the turn has no terminal event and the status stays `Running` until the
  next turn: an agent that waits for this one waits. `SettledWhenQuiet` names this
  exception, and excludes it for every session that was not suspended.
* A tool call that is aborted between popping a residency candidate and putting it
  back or removing it, or between loading an agent and committing its slot, leaves an
  agent that is loaded and not listed: it takes no room and is not evicted until a
  message touches it. An aborted spawn leaves one that has no registry entry either,
  and that no message reaches. A reload whose owner check fails after the load
  (`validate_loaded_v2_child`) has the same effect.
* A turn that shutdown's interruption has started (`turns_v_shutdown`) keeps its
  execution guard until it ends, so an evicted agent may still count against the
  limit.
* Pollution looks at the selection flag before it changes the mode, so a consolidation
  that marks the output in between is not queued for forgetting. The consolidation of
  the next startup forgets it: phase 2 is tried at every startup, queued or not.
* `shutdown_live_agent` removes by id after having waited for one session; a session
  that was resumed meanwhile is cut off and runs on outside registry and map, so
  more agents may be open than `max_threads`.
* The limiter's check and its guard are two steps: calls made together can start more
  turns than the capacity.
* A session reloaded for a queue-only message has status `PendingInit` and cannot be
  evicted until it has had a turn.
* Mail may be recorded out of order when a user start overlaps a finishing turn, and
  `status` may become `Completed` while the next turn already runs.

## 5. Proofs

`TypeCorrect` (`SessionTurns_proofs`) proves `Spec => []TypeOK` for every value of
the constants, from `ConstantsAssumption` only. `ItemsAreConserved`, in the same
module, proves `Spec => []ItemsConserved` for every session: routers, wake-ups,
guardian, injections and refused starts included, and also where a task is started
over another (section 4). The invariant is `TypeOK /\ Custody /\ AllKept`; none of the
three is inductive alone.

* `AllKept` says it of the queues as functions: each place of each queue holds an
  accepted item, no item has two places, every accepted item has one. Counting
  (`Cardinality`, as `ItemsConserved` does) comes last, in `KeptIsConserved`.
* `Custody` says who can have items in hand. `HandsOK`: only at the labels between
  taking items out of a queue and putting them into the next one, and there with the
  turn state, the victim and the turn that the next step needs; without it
  `start_task`'s drain could overwrite what it holds, and `on_task_finished` could
  record the input of no turn state. `TasksOK`: a task never aborts another. `IdsOK`:
  a turn that is going to be installed has no task yet and one installer; without it
  the install would write over the input of a task that exists.

A step is then one of five things that queues do: nothing moves, a queue is appended
to another, a queue is recorded, queues are thrown away with what is in them, a new
item arrives (`NothingMoves`, `QueueMoves`, `QueueIsRecorded`, `QueuesAreDropped`,
`ItemArrives`); the start of a task over another is a move and a drop in one step. For
the recording the provers need to know what `Recordable` computes: `RecordableIs` says
that it lists the places that no hook blocks, each once. `SelectSeq` is a recursive
definition out of their reach, so `Recordable` numbers those places by counting them
(`RanksCount`, which also says that the numbering keeps the order).

`SessionTurnsOwner_proofs` proves safety for sessions in which only the submission
loop starts turns (`SingleStarter`: no trigger mail, no durable sleep, no realtime
router, no guardian). The restriction is not for convenience: with the other
starters a task may be started over another (section 4), and two tasks may overlap.
The argument is one inductive invariant, `Ownership`:

* `Roles`: which labels the loop and the tasks can be at, and where calls return;
* `FreshIds`: an id the loop is going to install names a task not yet born and
  not cancelled;
* `SlotNamesTask`: the slot is empty while the loop is between taking and
  installing; a task in the slot is running and not cancelled; a running task is
  in the slot, or is the one the loop is killing;
* `OneReporter`: the task that is being aborted has no terminal event and cannot
  get one from itself; a task that is still to report has none.

`RunningTaskOwnsSlot` alone is not inductive: nothing in it says that the task the
loop aborts cannot be on its way to `on_task_finished`. `Ownership` is checked by
`turns_users` first. From it follow `RunningTaskIsInSlot`, `StartsOnlyInFreeSlot`
(both assertions of `start_task`), `TurnsEndOnce`, `OneTaskAtATime` and `SlotIsSafe`,
which joins the statements about the slot.

The second half of the module is about what waits in the turns and what is told about
them. Under `Ownership` every step is one of sixteen kinds (`StepKinds`: the loop
adopts, installs, takes, kills, reports, wipes, reserves; a task works on, leaves the
slot, reports, clears; input arrives), and each further invariant is shown for the
kinds instead of for every action again:

* `HoldersInv`: who holds a turn state. The loop holds the one in the slot while it
  starts a turn; no turn runs in the one a finishing task holds; and a slot without a
  task is being filled or about to be cleared;
* `PhaseInv`: a turn state not handed out yet is fresh, and a turn is open to mail
  while it is being started. It gives `ClosedTurnIsSafe`;
* `ReportsInv`: while the status is `Running`, a task or the loop is still to change
  it, or a suspension failed; a dead turn has its event, is about to get it or was
  suspended. It gives `SettlesWhenQuiet`;
* `ReachInv`: a finishing task saves before it clears, and a reserved slot is empty.
  It gives `InputIsReachable`, for sessions without injections: one that arrives
  between saving and clearing stays in a turn state that nobody looks at again
  (section 4).

`SessionTurnsReserved_proofs` is about the sessions at the other end: turns are started
for trigger mail, after a durable sleep, by `start_if_idle` and for recovery, by the loop
and by the tasks of any number of turns, and input is steered and injected; but nobody
aborts a turn or starts one without a reservation (`ReservedStarts`). `turns_wake` is such a session. This premise
too is needed: a user start that overlaps a finishing turn has the mailbox in hand while
that turn still has older mail to save, and an interrupt takes the reservation of
somebody else (section 4). The two premises cover two ways to use a session; where user
starts, interrupts and wake-ups all meet, what is proved is `TypeCorrect` and
`ItemsAreConserved`.

* `Reservations`: the slot has at most one holder. A process is busy from its
  reservation to the task it installs, and a task from there until it clears the slot;
  no two are busy (`OneHolder`), the holder has the turn state in the slot in hand
  (`HolderKnowsSlot`), and a slot that is not idle has a holder (`SlotKnowsHolder`). With
  it goes who has reported what (`EndReported`) and that nobody else acts (`Cast`). It
  gives `ReservedSlotIsSafe`, `ReservedEndsOnce` and `ReservedSettles`. Under it every
  step is of one of twelve kinds (`ReservedStepKinds`), for which the rest is shown.
* `OpenInv`: a turn is open to mail while it is being started. It gives
  `ReservedClosedTurn`.
* `MailLine`: the history, what a task has taken out to record, the pending input of the
  turn in the slot, what a start has in hand, and the mailbox form one line, and the mail
  in it is in the order of posting (`Line`). Every step moves mail from one place to the
  next one in front of it, or posts it at the end (`LineTakes`, `LineRecords`,
  `LineDrains`, `LineHands`, `LinePosts`). Order within the history alone is not
  inductive, and neither is the line without `NoStrayMail`: a turn state outside the slot
  has no mail, so no older mail comes back. Since `get_pending_input` takes pending
  input before mail, it needs that nobody has mail in hand behind the pending input, and
  this is `OneHolder`. It gives `MailArrivesInOrder` and, without injections,
  `ReservedInputIsReachable`.
* `ReservedIsSequential` is the refinement, `Spec => ImplementsSequentialSession`. A
  turn is current from the install of its task to the report of its end. The install maps
  to `Begin`, which needs that no turn is current: the starter is the holder. Recording
  maps to `Say`, the report to `End`, and the order comes from `MailInOrder` after the
  step; that nothing is posted twice, from `SentStaysSent` for all actions. All other
  steps are invisible, giving up the slot after the report included.

`AgentRegistry_proofs` proves, for any number of callers, threads, paths and sessions
and from `RegistryAssumption` only, that the registry's bookkeeping is right. The
inductive invariant `RegistryInv` is `TypeOK`, `IndexMatchesTree`, `PathsHeldOnce`,
`NeverUndercounts` and, where every start passes the limit, `total <= MaxThreads`.
The parts need each other: a release deletes the tree entry its index names, which
is the thread's own only by `IndexMatchesTree`; a commit overwrites its key, which is
nobody else's only by `PathsHeldOnce`; and the count covers registered agents and
reservations only because a release uncounts exactly when it removed an entry.
`NeverUndercounts` compares with the cardinality of a set that mixes threads and
callers; lemmas on adding and removing one member carry it through the actions. The
theorems are `RegistryInvariant`, `IndexAndTreeAgree`, `PathsAreHeldOnce`,
`CountCovers` (so the `fetch_sub` never wraps), `LimitHolds` and `PathKeepsItsAgent`,
an action property.

The proofs about the request queues hold for any number of keys, connections and
requests, with panics or without, from `QueuesAssumption` only.

In `RequestQueues_proofs`:

* `ShutdownIsFinal` needs only the types of requests and
  gates. `OneDrainTask` rests on `DrainInv`: a task belongs to a key, only a task that
  polls holds requests, and the owner a queue names is the key's one live task. It
  leaves open what the queues hold.
* `OrderInv` says what they hold: a queue has
  exactly the queued requests of its key in the order of arrival (`QueuedOK`,
  `CompleteOK`); what a task holds came before everything in the queue and is one
  request or all reads (`BatchOK`, `AccessOK`); nothing taken is held by no task
  (`HeldOK`); a numbered arrival is new (`FreshOK`); while reads run and a read heads
  the queue, the notification is stored (`PermitOK`). Each action is an arrival, a
  taking of a prefix, or a step in which no queue changes (`ArrivalOrdered`,
  `TakeOrdered`, `MovesKeep`). `PermitOK` survives a taking because the loop pops reads
  until the head is none, which `LeadingReadsEnd` proves with a least-element argument.
  `QueuesAgree` is `Spec => []QueueInv`.
* `QueuesSerializeAccess` is the refinement, `Spec => ImplementsSerializedAccess`. The
  step that matters is `PassGate`: it maps to `Begin`, and what could block it is either
  queued, so later by `BatchOK`, or held by the same task, so a read beside a read by
  `AccessOK`. That it is the same task is `OneDrainTask`.

`AgentResidency_proofs` proves the bookkeeping of residency for any callers, threads,
sessions, messages and capacity, from `ResidencyAssumption`. There has to be a caller,
because the bound on the overshoot is strict. The invariant has three layers. `Base`:
what a call has in hand at each label (`CallOK`), which sessions exist (`SessionsOK`),
and that slots match holders and guards match turns, counted with lemmas on sets that
gain or lose one member. `TrackInv`: `LoadedIsTracked` and a bound on `Counted`, the
threads that are in the residency list or can get there without a new slot; only
`Reserve` enlarges it, and it checks the capacity first, so the excess is less than
the number of callers. Both leave out `strayed`: a thread that an aborted call let go
of is not tracked, and comes back into the list without a slot when it is touched. `HeldInv`: an accepted message is in one place. Removing from
the list (`Without`, Rust's `retain`) needs no induction: what the proofs use holds
because the list has no repetitions. Theorems: `ResidencyAgrees`, `MessageIsHeldOnce`.

`MemoryJobs_proofs` holds for any processes and threads, from `MemoryAssumption`.
`JobsInv` is not inductive: it does not say at which labels a worker can hold
a claim or a loaded rollout (`WorkersOK`), nor that after a deletion no worker both
holds the rollout and still owns the row (`DeletedOK`). `MemoryInv` adds them.
Theorems: `JobsAgree`, `DeletedStaysDeleted` and, as action properties,
`LateResultLoses` and `SuccessIsReal`. The last rests on `ClaimMatchesRow`: the worker
whose report is accepted has the row's input as its claim, and that is newer than what
the row records as done.

`CellActor_proofs` holds for any clients and items, from `CellAssumption` (finitely
many observations). The invariants are stacked, each using the ones before it:

* `OutcomeInv`: what a client can have been answered in each phase of the actor, and
  that the committed values agree with it. It gives `CellHasOneOutcome`;
* `ThreadInv`: where the thread is, what it sent and what `runtime_paused` says;
* `WaitInv` and `CountOK`: a call that waits is in the inbox, the observer or the
  termination, and a callback or a response was a message of the thread. Together they
  give `ActorAgrees`;
* `OutputInv`: the output told, then held by the actor, then in the channel, is the
  sequence the script wrote. It gives `NoOutputLost`.

Only model-checked: liveness, which is out of the prover's reach (`EveryTurnEnds`,
`TriggerMailDelivered`, `RequestsEnd`, `ShutdownReturns`, `BaselineSettles`,
`ExtractionSettles`, `ObservationsAnswered`, `ClosesWhenCancelled`, `CallsReturn`).
Every invariant and every action property of the runs is stated by a theorem. Those
about the slot, the turns and the order of a session's mail are proved under
`SingleStarter`, under `ReservedStarts`, or under each of them; section 4 says how some
of them fail where neither holds.

## 6. Left out, and the plan

Not in `SessionTurns`: pending approvals and answers (they live and die with the
turn state), the review and user-shell tasks, the `BudgetLimited` abort, settings,
schemas, root turn ids, telemetry, and the conversation's own structure.

Not in the agent modules: forking and configuration of spawned agents, roles,
reloads that validate an owner, the V1 completion watcher, and the environments an
eviction saves.

Not in the service modules: see the paragraphs "left out" of section 2. The rest of
the repository (most of its lines are the TUI, protocol types, configuration, parsers
and tests) has no state that several actors share, or is I/O; `PROJECT.json` gives
the reason part by part.

Order of the next steps, the most exposed first:

1. `RemoteControl`: sequence ids, segments and client expiry over a lossy link.
2. `QueueService`, `ExecSession`, `UnifiedExec`, `MoaRun`.
3. What a session still promises where user starts and wake-ups meet: a weaker
   `SequentialSession`, in which a turn may begin while the one before it reports.

To keep the list of runs short, a new component gets one passing run that asks all of
its questions.
