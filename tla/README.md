# SuperNova Agent: TLA+ models, model checking and proofs

This directory is a verification development for the SuperNova Agent sources
under `src/`. It contains TLA+ modules translated from the Rust code, TLC
configurations that check them on small instances, and TLAPS proofs of their
main properties for every value of the constants. `PROJECT.json` maps every
definition to the source lines it stands for and lists runs, mutants, hazards,
findings and theorems.

## 1. The system

SuperNova Agent is a local desktop application. A Tauri shell starts an HTTP
server (the Product Runtime) on the loopback interface; the Workbench UI talks
to it; agent loops run in the Process Kernel, either inside the server or in a
child process per run.

```
 Workbench v2 (React)  --HTTP/SSE-->  Product Runtime  --library calls-->  Process Kernel
   polls /runs every 2 s               services + SQLite    |                 truth store (SQLite)
                                                            |                 agent loop, capabilities
                                        one child process per run             model provider (HTTPS)
                                        (kernel_worker, JSON lines on stdout)
```

### Components, their state and operations

| Component (source) | State | Operations |
| --- | --- | --- |
| Run registry (`product_runtime/src/state/run_registry.rs`) | table `run_registry`: status, cancel flag, task/job binding, error | insert, update status/worker, heartbeat, bind, request cancel, two repairs |
| Run manager (`services/run_manager.rs`) | `active_processes` (run -> child) | start/mark/bind/complete/fail run, supervise a worker, kill it |
| Kernel worker (`kernel_worker.rs`) | one process, its stdin command | start task or chat, heartbeat thread, report started/delta/completed/failed |
| Task service (`services/task_service.rs`) | task records, phase messages, projected messages | start_stream, list, get, messages, user input, force close, approvals, repairs |
| Chat service (`services/chat_service.rs`) | chat threads, turns, messages | start/record turn, force close, repair |
| Product database (`state/product_db.rs`, `migrations.rs`) | SQLite file shared by all services | upserts and reads |
| Message feed, projection shards, event projection (`state/message_feed.rs`, `state/projection_shards.rs`, `kernel/event_projection.rs`) | projected messages per job, shard files, cursors | append, page, stream deltas, shard selection |
| Runtime event log (`state/runtime_event_log.rs`, `http/sse.rs`) | append-only event rows with cursors | append, replay after cursor, SSE stream |
| Containers, context packs, workspaces, settings, model configuration, artifacts, diagnostics (`services/*`) | one table or file each | create, read, update, delete |
| HTTP layer (`http/*`) | none | routing, token check, conversion to DTOs |
| Kernel API (`process_kernel/src/kernel_api.rs`) | container timeline | start task, user input, cancel, status, timeline synchronisation |
| Process truth store (`process_kernel/src/lib.rs`) | per job: append-only events, messages; jobs, processes | append, replay, create job |
| Root process (`root_process.rs`) | none of its own | start, resume, input, cancel a job |
| Task agent (`task_agent*.rs`, `closure_gate.rs`, `observation.rs`) | one session: turns, tool observations, latches | agent loop, tool dispatch, complete/fail/block/interrupt/clarify |
| Capability kernel and approvals (`capability_kernel.rs`, `approval_runtime.rs`) | previews, approval tokens, receipts | preview, issue token, commit, deny |
| File executor (`os_runtime.rs`) | files, lock files, backups and records of transactions | read, write, copy, move, rename, delete, zip, unzip, roll back |
| Other executors (`terminal_runtime.rs`, `office_runtime.rs`, `data_runtime.rs`, `artifact_runtime.rs`, `package_runtime.rs`, `client_env_runtime.rs`, `read_only_capability_executor.rs`) | files, processes, services | one function per capability |
| Chat runtime (`chat_runtime.rs`, `chat_truth.rs`) | chat log | chat turn with read-only tools |
| Model access (`model_runtime.rs`, `model_retry.rs`, `model_stream.rs`, `deepseek_provider.rs`, `provider_*.rs`) | transcript; per workspace the limiter's lock and state file; per job the call ledger | invoke, stream, retry, acquire and release a permit, record and find a receipt, transcript for the provider |
| Context (`context_*.rs`, `container_context.rs`, `task_context_state.rs`) | budgets, compaction state | build context, compact |
| Container store (`container_store.rs`, `agent_container.rs`) | container files | bind job, timeline |
| Protocol DTOs and code generator, Tauri shell, Workbench UI, Office worker | UI state | serialisation, process start, rendering |

### How the components interact, and what is hard

Nothing in the product serialises work on one task. Each HTTP request runs on a
thread of its own; the request that started a task blocks in `start_stream`
until the worker's last line; a poll of `GET /runs` repairs rows in passing; a
repair thread runs after each start of the server; the worker is another
process with its own connection to the same SQLite files, and all processes of a
workspace share the lock file of the provider limiter, the files of the
workspace and the lock files that stand for them. Four stores say what became of
a task and are written by separate statements without a transaction
around them:

* the job's event log in the kernel (the truth),
* the status in the kernel's container timeline,
* the row in `run_registry`,
* the task record and its "TaskRuntime running" phase message.

So the hard behaviours are interleavings of statements of different threads,
values read and used later, a cancel racing a completion, a child process that
crashes, is killed, or outlives the server, a store statement that fails half
way through a handler, and a restart between any two of these. `hazards` in
`PROJECT.json` lists them with their lines.

What makes each component correct:

* run registry and run manager: a row says completed, blocked or interrupted
  only if the job's log does; the child of a bound run can be killed; a request
  comes back after its child ended; rows leave the active statuses.
* task service: a task's status is derived from the log, takes one closed value
  and keeps it; no store gets a status the log never had; a cancellation is
  recorded before it is acted on.
* truth store: sequence numbers are unique and dense; replay is a function of
  the log.
* task agent: every tool call gets one answer, budgets bound the loop, the task
  is completed only through the closure gate.
* approvals: at this commit `prepare_capability_approval`
  (`capability_kernel.rs:94`) lets every request pass, so nothing waits for one.
* chat: a closed thread stays closed, a cancelled turn records no answer.
* message feed: a reader that resumes after its cursor has been sent, at the end,
  the final version of everything.
* model access: one call to the provider at a time, calls at a distance, every
  call ends and keeps its receipt.
* executors of file changes: what a change overwrites is kept, a rollback puts
  it back, two callers do not block each other.

## 2. Modules

| Module | Content |
| --- | --- |
| `RunRegistry` | the rows of `run_registry` and the SQL statements on them as operators; the two readings of a job's log (`ProjStatus` of the product, `KernelStatus` of the kernel) |
| `TaskStatus` | abstract specification: the status the product derives for a task appears, changes while it is open, takes one closed value and keeps it |
| `TaskRun` | a task run with its supervisor, worker, request threads, poll, restarts and startup repair; its properties |
| `TaskRunInv` | the inductive invariant `IInv` |
| `TaskRun_proofs` | the TLAPS proofs |
| `TaskRunMC` | what the TLC configurations of `TaskRun` name |
| `Transcript` | the provider transcript as a sequence of messages: what the protocol validator accepts, where a compaction cuts |
| `TranscriptProtocol` | abstract specification: the steps the provider allows a transcript to take |
| `ToolLoop` | the tool call loop of a task: sessions, turns, subturns, batches of calls, budgets, the messages and the log they leave; its properties |
| `ToolLoopInv` | its inductive invariants: `TypeInv`, `IInv`, `CallsInv`, `FinishInv`, `ShareInv`, `MatchInv` and `SerialInv` |
| `ToolLoop_proofs` | the TLAPS proofs about types and budgets |
| `ToolLoopCalls_proofs` | the TLAPS proofs about the calls of loops side by side, their budgets, and completion |
| `ToolLoopTranscript_proofs` | the TLAPS proofs about the messages: pairs of call and answer, requests, compactions, the refinement of `TranscriptProtocol` |
| `ToolLoopMC` | what the TLC configurations of `ToolLoop` name |
| `EventLog` | abstract specification: entries numbered without a gap and only added at the end, readers that hold a beginning of it |
| `ProcessTruth` | the truth store of one job statement by statement: events, status columns, blobs, checkpoints, the kernels that write them and the clients that follow the log; its properties |
| `ProcessTruthInv` | its inductive invariants `TypeInv`, `RefInv` and `RowInv` |
| `ProcessTruth_proofs` | the TLAPS proofs |
| `ProcessTruthMC` | what its TLC configuration names |
| `MessageFeed` | the feed as operators: append, cursor, page, merge of two stores |
| `ChatTurn` | the turns of a chat thread: request, worker, force close, restart and repair, live stream; its properties |
| `ChatTurnInv` | its inductive invariants `TypeInv`, `OrderInv`, `ClosedInv`, `PhaseInv` and `AnswerInv` |
| `ChatTurn_proofs` | the TLAPS proofs |
| `ChatTurnMC` | what its TLC configurations name |
| `ModelCall` | a model call: attempts, provider limiter, call ledger, kills; its properties and `IInv` |
| `ModelCall_proofs` | the TLAPS proofs |
| `ModelCallMC` | what its TLC configuration names |
| `FileChange` | the file operations of workers that share a workspace: lock files, backups, records, rollback, failures and kills; its properties and `IInv` |
| `FileChange_proofs` | the TLAPS proofs |
| `FileChangeMC` | what its TLC configuration names |

`TaskRun` extends `RunRegistry`; `TaskStatus` is instantiated in `TaskRun` with
the refinement mapping `shown <- [r \in Runs |-> ProjStatus(truth[r])]`.
`ToolLoop` extends `Transcript`; `TranscriptProtocol` is instantiated in it with
`visible <- Visible`, the messages the log names. `EventLog` is instantiated in `ProcessTruth`
with `log <- events`. `ChatTurn` extends `MessageFeed` and `RunRegistry`, whose
rows chat runs share with task runs. `ToolLoop` is the inside of
what `TaskRun` takes as one step, `WorkerOutcome` (or `InputOutcome` for a loop
in the server): its ends are the outcomes there. `ProcessTruth` takes the status
events that are one step in `TaskRun` apart into their statements, and
`ModelCall` is the inside of `ToolLoop`'s `ModelAnswers` and `ModelFails`, and
`FileChange` that of its `ExecuteCall` for the file capabilities.

### 2.1 TaskRun: state and steps

One step is one statement on one store, or one decision of a handler between
two statements. Program counters (`sup` for the supervising request, `thread`
for the others) name the statement that comes next.

| Variable | Code |
| --- | --- |
| `truth[r]` | status events of the job in the truth store |
| `timeline[r]`, `tlBound[r]` | status in the container timeline; whether the job's log has the bound event that `sync_task_timeline_status` looks for |
| `worker[r]`, `pipe[r]`, `result[r]` | the child, its unread lines, what its agent loop returned |
| `row[r]` | the run_registry row |
| `task[r]`, `phase[r]` | the task record, the phase message |
| `active` | keys of `RunManager::active_processes` |
| `sup[r]`, `fin[r]`, `serr[r]` | where `start_stream` is, its `final_status`, whether its error mentions a locked database |
| `thread[t]` | a request thread: position, operation, run, status it holds |
| `poll[r]` | what `repair_container_stale_task_runs` read for the run |
| `due` | tasks the startup repair has not visited |

| Steps | Handler |
| --- | --- |
| `InsertRun`, `MarkRunning` | `start_task_run`, `mark_running` |
| `Spawn` ... `FailAtEof` | `RunManager::run_worker_command`, with `BindTask`, `BindRun`, `BindPhase` for the callback `bind_started_task` |
| `ReadFinalStatus` ... `FinishTask`, `FailStream` | the Ok and the Err branch of `start_stream` |
| `WorkerStartJob`, `WorkerOutcome`, `WorkerFinish`, `WorkerFails` | the worker: create the job and report it; the end of the agent loop; timeline, bound event and result line; crash or early error |
| `StartGet`, `StartList`, `ListWrite`, `Load`, `Store`, `RepairRow` | `get`, `list`, `hydrate_task`, `reconcile_task_record`, `repair_stale_task_runs_from_events` |
| `StartClose`, `Decide`, `CancelJob`, `SyncTimeline`, `MarkCancelled`, `FindRun`, `KillWorker`, `WritePhase` | `force_close` |
| `StartInput`, `CheckResume`, `Resume`, `InputOutcome`, `InputFinal`, `InputUpsert` | `submit_user_input` down to `resume_job` and `finish_task_action` |
| `PollRead`, `PollRepair` | `GET /runs` |
| `Restart`, `StartRepair`, `RepairLockedRow` | a new server process and `repair_workspace_projection` |
| `RunCommandFails`, `StreamFails`, `SpawnFails`, `ThreadFails` | an error of any statement, propagated with `?` |

Abstractions, each of which keeps every status write:

* `update_job_status` and the `job_*` event written with it are one status
  event: they carry the same status and nothing reads between them.
* `waiting_approval` is `running`, as `normalize_task_status` makes it.
* Heartbeats, stream deltas, ordinary messages, time stamps and titles are left
  out. `reconcile_task_record` skips its write when status and time stamp
  agree; without time stamps `Load` may skip when the statuses agree.
* Reading the record and the log at `Load` is one step; the record's status
  only matters for the choice above.
* `resume_job_with_max_turns` checks the status once more; the later check is
  the one modelled.
* A kill works. `finish_child_after_terminal` kills a child that wrote its
  result and lingers, which no store sees.
* The job's log can be read. The fall-backs for an unreadable log
  (`unwrap_or_default`, skipping the task) are not modelled.
* The mode without worker processes (`process_worker_enabled()` false) is not
  modelled; approvals and other task actions are planned.

### 2.2 Runs

All configurations use one run: different runs share only `active` (a set of
keys) and the thread pool, and every property is about one run at a time. The
theorems hold for any set of runs. Two request threads (`TaskRunFaults`) suffice
for a handler that is overtaken by another at each statement; the supervisor,
the worker and the poll run beside them, so one request thread and two requests
(`TaskRunLive`) still give races of up to four actors. `MaxRequests` bounds
closes and inputs, `MaxRestarts` restarts; gets and lists are unbounded.
Deadlock is not checked: a system whose requests are answered and bounds are
used up stops.

| Run | Shows |
| --- | --- |
| `TaskRunFaults` | every statement may fail, the server restarts once: `IInv` itself, cancellations recorded first, children killable, and that every starter gets an answer if agent loops end (493 thousand states) |
| `TaskRunLive` | reads race closes, input resumes the job in the server beside the worker, one restart: results, statuses, the reaped child, the refinement of `TaskStatus`, and liveness with a worker that may hang (316 thousand states) |
| `DocCloseEndsWorker` | a statement of a test the code does not keep: finding 1 |

Fairness. Threads of the server are scheduled by the operating system and their
statements return (busy SQLite statements are retried a bounded number of
times, then fail): weak fairness of `Supervise` for a started run, of
`ThreadStep`, `PollRepair` and the startup repair. The page polls `GET /runs`
every two seconds while a run blocks it (`WorkbenchV2.tsx`): weak fairness of
`Blocks(r) /\ PollRead(r)`. Nothing is assumed of the worker; only
`EveryRunReturns` has `WF_vars(Work(r))` as a hypothesis, where bounded turns and
the model time-outs and bounded retries make an agent loop end.

### 2.3 Properties

* `RunResultIsTrue`: `completed`, `blocked` or `interrupted` in a row is what
  the log yields *now*, although each writer read the log several statements
  earlier. It holds because the first closed status of a log never changes, and
  it would fail with the kernel's own "last one wins" reading (mutant
  `ReadLastStatus`). `failed` and `cancelled` rows are excluded because
  `fail_run` and `complete_run(.., "cancelled")` do not look at the log.
* `CancelIsRecordedFirst`: nobody kills, flags or reports cancelled before the
  log has a cancellation.
* `LiveWorkerIsKillable`: a bound run with a live worker is in `active`.
* `AnsweredRunIsReaped`: an answered request leaves no child behind; false when
  statements may fail (`RunCommandFails` is an early return that leaves the
  child running), hence proved under `~StoreFaults` (`AnsweredRunsAreReaped`); no
  run checks it.
* `StoredStatusWasRecorded`: timeline, record and phase only ever hold statuses
  the log had.
* `TaskStatusImplemented`: the derived status is sticky.
* `ClosedRunSettles`, `CancelledRunReturns`, `EveryRunReturns`: liveness.

### 2.4 Finding

1. `DocCloseEndsWorker`. A cancel should end the worker (test in
   `tests/process_kernel_worker.rs:129`). `bind_started_task` writes the task
   record first and binds the row later; a force close in between flags and
   kills nothing, and the agent goes on.

More behaviours follow from the same steps and have no run of their own:

* An interrupted job that is resumed and completes stays `interrupted` in the
  product, which keeps the first closed status of a log, and is `completed` in
  the kernel, which keeps the last, although projections should not replace
  kernel truth.
* The cancel flag of a run that was flagged and then failed is never cleared, so
  the page stays blocked by a run that ended, although the UI test says only
  active or cancellation-pending runs block.
* `start_stream` takes its error branch on a run that `run_worker_command`
  completed as `cancelled`, and `fail_run` overwrites the row with `failed`
  (`CancelledRunReturns` therefore says that the requester is answered, not what
  the row reads).
* A close that loaded the task before it completed leaves the phase message of
  a completed task at `cancelled` (`StoredStatusWasRecorded` only asks that the
  log has a cancellation).
* A run that was not bound when the server stopped has no task id a repair
  could match, and stays active (`ClosedRunSettles` is about bound runs).

### 2.5 Proofs

`TaskRun_proofs` proves, from the four named assumptions on the constants
(`Runs # {}`, the outcomes are statuses an agent loop can end with, the
operations are the four modelled ones, the bounds are naturals):

* `InductiveInvariant`: `Spec => []IInv`;
* `TypeCorrect`, `ResultsAreTrue`, `CancelRecordedFirst`,
  `LiveWorkersAreKillable`, `StoredStatusesWereRecorded`: the invariants above;
* `AnsweredRunsAreReaped`: for `~StoreFaults`;
* `Refinement`: `Spec` implements `TaskStatus`.

The argument. None of the properties is inductive: each depends on what a
thread read earlier. `IInv` adds it, program counter by program counter:
`SupInv` (a status held in `fin` was recorded and, if closed, is still what the
log yields; before registration the row is unbound; in the loop the run is in
`active`), `WorkerInv` (a result line is in the pipe only after the child is
done), `HandlerInv` (a handler past `CancelJob` works on a log with a
cancellation), `PollInv`, `LogInv`, `ReapInv`. Everything rests on one lemma
about logs: appending to a log with a closed status does not change its
`ProjStatus`. The step lemma is split by store: `LogsGrow`, `RowsAreSupported`
(every row update is one of a few effects), `ChildrenKeepWorkerInv`,
`StoresAreSupported`, `SupervisorKeepsInv`, `ThreadsKeepInv`; each goes through
the actions of `Next` once.

Model-checked only: the liveness properties (the prover does not reason about
`ENABLED`), and the violations.

### 2.6 ToolLoop: state and steps

A loop asks the model, records the answer, executes the tool calls of the answer
in order, records one answer per call, and asks again. A loop runs in the worker
or, after user input, in a thread of the server; nothing keeps two loops of one
job apart (`Concurrent`), and nothing repairs what a dead loop left (`Faults`).

| Variable | Code |
| --- | --- |
| `file` | blob `provider_transcripts/<id>/messages.json`, rewritten as a whole for each message |
| `compacted`, `ref` | the latest `messages_compacted_<ms>.json`, and which of the two the latest `messages_ref` in the log names |
| `requested`, `answered`, `counted` | the events `provider_tool_call_requested`, `provider_tool_result_recorded`, `provider_tool_call_loop_tool_completed` |
| `status` | the job's latest status |
| `pc[l]`, `turns[l]`, `sub[l]`, `success[l]`, `executed[l]` | the position of a loop, its turns, subturns, `successful_tool_results_this_loop`, `executed_tool_calls` |
| `cur[l]`, `last[l]`, `mode[l]` | the calls of the batch still to be answered, and what became of the latest |
| `msg[l]`, `after[l]`, `view[l]`, `step[l]` | the message being recorded, where the loop goes on, the messages it holds, the events it has written |
| `ran`, `lost` | history: calls executed, and calls a loop executed and did not live to count |

| Steps | Code |
| --- | --- |
| `Read`, `Write`, `LogAnswered`, `LogAppended`, `LogRequested` | the three `record_provider_*` functions: replay the log and read the blob; rewrite it; append the events |
| `StartJob`, `SubmitInput`, `ResumeJob` | `start_job_*`, `submit_user_input_with_max_turns` (the message first), `resume_job_with_max_turns` |
| `StartTurn`, `SubturnsExhausted` | a turn of `TaskAgentSession::run`; the end of `0..max_subturns` |
| `Compact`, `LogCompacted`, `CompactionFails` | `compact_task_model_context`, `replace_provider_visible_transcript_with_summary` |
| `Request`, `ModelFails`, `ModelAnswers` | `invoke_next_action_model` and the branches on its receipt |
| `CheckBudget` | `begin_subturn` and its error branch |
| `RejectCall`, `ExecuteCall`, `CountCall`, `SkipCall`, `LeaveBatch` | the loop over `provider_tool_calls` |
| `Die` | the process ends, or an error is passed up with `?`: the status stays what it was |

Abstractions:

* A call is its id; the model never uses an id twice. Texts, arguments,
  receipts, token estimates and reasoning contents are left out. What a call
  does is a choice of its outcome (`plain`, `good`, `recover`, `finish`).
* Whether a transcript is long (its rewrite has an event of its own, or the
  context is nearly full and a compaction is due) is a free choice.
* Whether a batch only reads or controls, and may exceed the limit of a
  subturn, is a free choice.
* `Compact` reads the messages and validates the replacement in one step; it is
  written by another. Its file has a name of its own.
* A transcript is of one provider; the session's turns are counted only when
  they are limited, since nothing else depends on their number.
* A cancellation of the job is `TaskRun`'s; the loop does not look at it.
* The blob is written in one step. A torn write is listed as a hazard.
* What a request to the model does until its receipt is `ModelCall`'s.

### 2.7 ToolLoop: runs

Two messages kept by a compaction, batches of up to two calls, a limit of one
call per subturn (so that it is exceeded) and of two per task give every branch:
a batch that fits, one that exceeds the subturn and is exempt or not, one that
exceeds the task, a compaction before, inside and behind an exchange. `MaxBatch`
and `MaxInputs` are bounds of the model; ids, messages and calls are bounded by
the loop's own budgets. Deadlock is not checked: a loop ends.

| Run | Shows |
| --- | --- |
| `ToolLoopSerial` | one loop at a time, no faults, two inputs, turns without a limit: the properties of requests, compaction, log and completion, the refinement of `TranscriptProtocol`, and that every loop ends |
| `ToolLoopFaults` | a loop may die between any two statements, two inputs: orphans and budgets, and `IInv` itself |
| `ToolLoopTwo` | two loops at a time: answers find their calls, one budget per loop |
| `DocToolMessages` | finding 2 |

Fairness (`FairSpec`): the threads of a loop are scheduled, the model answers or
times out and is retried a bounded number of times, a tool call returns or is
timed out: weak fairness of the steps of each loop. No fairness on input.

### 2.8 ToolLoop: properties

* `RequestIsAnswered`: the transcript sent to the model is valid and each answer
  stands right behind its call. True for loops that end in order, whatever ended
  their batches: the calls not executed are answered with an error. False after a
  crash (finding 2).
* `NoOrphans`: even after crashes and compactions no tool message lacks its call
  and no call has two answers.
* `CompactionAccepted`: between subturns the replacement passes the validator.
* `LogMatchesTranscript`: the calls pending by the log are those open in the
  blob, two stores written one after the other.
* `AnswerFindsItsCall`: with two loops that overwrite each other's messages,
  recording an answer still succeeds, since it asks the log and not the blob.
* `TaskBudgetHolds`, `OverrunWasLost`, `BudgetPerLoop`: the budget over turns,
  inputs and crashes; what a crash may cost; what two loops may cost.
* `CompletionIsLast`: a completed job makes no further request or call.
* `TranscriptImplemented`: the transcript takes only steps the provider allows.
* `LoopEnds`: with unlimited turns a loop ends, because a turn is followed by
  another only after a successful, hence counted, call.

Finding:

2. `DocToolMessages`. The loop's own diagnostics say the provider requires
   matching tool messages (`provider_transcript.rs:384`) and the next request
   all calls answered (`task_agent.rs:1419`). A process that dies in the middle
   of a batch leaves calls open; user input resumes the job, its message is
   appended behind them, and nothing ever answers them. From then on compactions
   of that part of the transcript are refused as well.

A test calls the default budgets hard guards (`lib.rs:2995`). Input that arrives
while the worker's loop runs starts a second loop in the server with the same
count (`task_agent.rs:556`), so two loops may count twice the budget:
`BudgetPerLoop` states what is left of the guard.

### 2.9 ToolLoop: proofs

`ToolLoop_proofs` proves, from the four named assumptions (limits are positive
naturals, a call may end a job as completed, failed or waiting for the user, the
modes are Booleans, there are finitely many loops), for any such set of loops:

* `TypesHold`, `TypeCorrect`: types. They rest on `LiveSuffixStartKeepsCalls`:
  the start of the live suffix exists, because position 1 needs no move and the
  candidates are bounded (`LargestExists`, from the well-foundedness of strict
  subset), so the replacement is a transcript.
* `InductiveInvariant`: `Spec => []IInv` when input waits for the loop before it
  (`~Concurrent`), with crashes at any point.
* `TaskBudget`, `OverrunsWereLost`: `TaskBudgetHolds` and `OverrunWasLost` from
  it. With two loops `TaskBudgetHolds` is false (end of 2.8).

The argument. `counted <= MaxTotal` is not inductive: a call is counted long
after the budget was checked. `IInv` says what the loop knows in between:
`Synced`, inside a turn the number it keeps in memory is the number of events in
the log; `Fits`, once the check passed, the calls counted, the one in flight and
the rest of the batch fit into the budget together; `CallsAddUp`, every executed
call is counted, lost or in flight. As one loop runs at a time the invariant is
that of one loop (`Local`), and `LocalStep` has one step per action.

`ToolLoopCalls_proofs` proves, on top of the types:

* `CallsInvariant`, `AnswersFindTheirCalls`: `CallsInv` and with it
  `AnswerFindsItsCall`, for any number of loops side by side, with and without
  faults. The messages that loops overwrite for each other are of no use here;
  the argument is about the log alone. `Due(l)` are the calls that loop `l` has
  still to answer. They are entered in the log before the loop leaves the message
  that asks for them, nobody has answered them (`CallsKnown`), and no two loops
  have one in common (`CallsApart`), because ids are used once. `Effect` is what
  a step of one loop may do to the rest: it answers only calls that were due to
  it, and takes on only new ones (`EffectKeepsCalls`).
* `CompletionLast`: `CompletionIsLast` for one loop at a time without faults.
  `Finishing`: while a loop runs in a completed job, it is on its way from the
  call that completed it to the end of the batch. With faults it is false: a call
  that wrote the status and then failed is taken for an error to be corrected.

* `BudgetShared`: `BudgetPerLoop`, again for any number of loops and with
  faults. A bound of `counted` alone is not inductive, since a loop that counts a
  call lets the others go on with a number that is now too low. `Left` is the set of
  pairs of a loop and a number between what that loop takes to be used up
  (`Used`) and the limit; `counted` plus its size never exceeds the product
  (`ShareInv`). To count a call takes one pair of the loop away; to read the
  log again, or to die, takes pairs away or none (`FitsLeft`).

`ToolLoopTranscript_proofs` proves, on top of both:

* `MessagesMatch`, `AnswersHaveCalls`: `MatchInv` and `NoOrphans` for one loop at
  a time that may die anywhere. That each answer has its call is not inductive: an
  answer is recorded because the *log* has its call pending, after the blob
  was rewritten by other steps. `MatchInv` adds that the calls the log has
  pending are in the messages (`Sound`), in those of the log, in those a
  compaction is about to name, and in those about to be written (`Grown`), and
  that nothing has answered the rest of the batch yet.
* `MessagesInStep`: `SerialInv` for one loop at a time that does not die. It says,
  statement by statement, which calls are open in the messages and which are
  pending in the log (`Expected`, `OpenBefore`), and that the open calls are
  those of the last message that asks, with only answers behind it (`Tidy`).
* From it `RequestsAreAnswered`, `CompactionsAccepted`, `LogAndMessagesAgree` and
  `TranscriptRefines`: `RequestIsAnswered`, `CompactionAccepted`,
  `LogMatchesTranscript` and the refinement of `TranscriptProtocol`. A rewrite of
  the blob is an append of the abstract specification as soon as the log names
  the blob; a compaction is one when its event is written, and `Compacts` carries
  what it is allowed to drop from the statement that builds it to the one that
  logs it. Without `~Faults` and `~Concurrent` all four are false (finding 2, and
  loops that overwrite each other's messages).

Model-checked only: `LoopEnds` (liveness).

### 2.10 ProcessTruth

The truth store of one job, written by the worker and by the kernel calls of the
server at the same time. An operation is a program of statements in `todo[k]`,
and one step executes the first of them: `append_event` is `max` (the `SELECT
MAX + 1`) and `insert`, `write_blob` is `truncate` and `fill`,
`update_job_status` three `set`s and an event, and `Create`, `Cancel`,
`SaveCheckpoint`, `SubmitInput` and `Finish` are the programs of the code put
together from these. `Abort` cuts a program anywhere (a failing statement or the
end of the process); `Conflict` is the refused insert of an id another kernel
took. A client follows the log by cursor in pages (`StreamEvents`).

| Property | Says |
| --- | --- |
| `LogImplemented` | without a transaction the log is still `EventLog`: numbered without a gap, nothing overwritten, and a client that follows its cursor misses and repeats nothing |
| `IInv` | ids are `1..n`, an id read is at most one beyond the log, clients hold a beginning of it |
| `RefsAreBacked` | the file behind a reference of the log is the one recorded, or a later write to the same name; every checkpoint row has its event |
| `RowsAgreeWithLog` | the three status columns agree with the log wherever no update is under way, unless two updates overlapped or one was cut |

Run `ProcessTruth` (2.9 million states): the worker, one kernel of the server,
one client; four operations (create and three that race or follow), two values of the
clock so that checkpoints fall into one millisecond or two, one abort, pages of
three events. Two writers suffice: an insert only ever collides with the ids
that were taken since its read.

`ProcessTruth_proofs` proves `InductiveInvariant` and `Refinement` for any
kernels, clients, page limit and bounds. The argument: a held id is at most one
beyond the log (`HeldIsNext`), because the log only grows; so an insert that is
not refused adds exactly the next entry, and no later insert can come below a
client's cursor.

`ReferencesAreBacked` and `RowsAgree` prove the two properties about the other
stores. Both invariants speak of the statements a kernel has still to execute,
because the properties themselves are not inductive: in the middle of an
operation it is the rest of the program that makes them true again.

* `RefInv` (`ReferencesKept`): an operation writes its file before it refers to
  it (`WritesFirst`), so that what is left of its program either still writes
  first or finds the file `Backed` already; the numbers of operations keep
  kernels `Apart`, so that a later write to the same name is by another
  operation, as the property says, and never half of the one referred to.
* `RowInv` (`RowsKept`): the rest of an operation is an update to one status
  whose columns come before the event that tells it (`Updates`); a kernel
  between the two `Carries` its status: each column has it or is still to be
  set, and replay yields it already once only the last event telling it is left.
  Up to the event by which a job can be found, only its worker acts, and what the
  columns lack is still in the program of `create_job` (`Creating`).

The proofs rest on `PageLimitAssumption` and on `EndingsAssumption`, which says
that a loop ends in one of the states that `Finish` has an event for. The
programs are first taken apart into their statements, position by position
(`CreateIs`, `SubmitInputIs` and the like), since sequences put together by `\o`
are out of the provers' reach as they stand. TLC checked `TypeInv`, `RefInv` and
`RowInv` on the instance of the run before they were proved.

Left out: process messages, the model call table, the lists replay derives beside
the status.

### 2.11 MessageFeed and ChatTurn

`MessageFeed` is the feed as operators over a store (id -> message): the append
that keeps the sort key, the cursor (the later of creation and update), the
page, the merge of the product database and the shard of a thread.

`ChatTurn` is a chat thread on top of it: the requests `record_turn`, the worker
processes, `force_close`, the repair after a restart, and the live stream of each
turn. As above `todo[a]` holds the statements an actor has still to execute.

| Variable | Code |
| --- | --- |
| `truth`, `held` | the chat log, the `event_seq` read by `SELECT MAX + 1` |
| `product`, `shard` | messages in the product database and in the thread's projection shard |
| `run[t]` | the row of the turn in `run_registry` |
| `worker[t]`, `result[t]`, `answer[t]`, `snap[t]` | the child, the outcome it settled on, the model's text, the events its result holds |
| `hide[t]` | `suppress_final_answer` |
| `stream[t]` | the stream: cursor, the page of the first of its two reads, what was sent |
| `clock` | one tick per message and event |

| Steps | Code |
| --- | --- |
| `BeginTurn`, `QueueRun`, `SpawnWorker`, `Delta`, `Reap`, `CheckClosed`, `Snapshot` | `turn_stream`, `record_turn`, `run_worker_command`, `on_model_stream_delta` |
| `SayMessage`, `ListMessages`, `RewriteMessage`, `ProjectEvent` | `append_message`, the three `complete_*` functions (list, then rewrite one by one), `project_chat_event` |
| `BeginClose`, `ProjectOwn`, `FlagRuns`, `KillWorkers` | `force_close` |
| `Restart`, `ReadTruth` | a new server process and its repair of the thread |
| `LoadProduct`, `LoadShard` | `live_message_stream` |

| Property | Says |
| --- | --- |
| `ClosedTurnIsNotCompleted` | a close that is in the log when the worker's result is taken is never overruled by it |
| `AnswerIsShown` | when nobody is at work, each completed turn has a message of its own, streamed or projected, with its answer, unless the streamed message of another turn has that text, or had it in passing (`Alike`); answers whose event shares its number with another are excepted (`Doubled`) |
| `PhasesSettle` | no phase is left streaming, except of turns a restart cut off before any outcome was in the log |
| `StreamShowsTheEnd` | the last load of a stream has sent the final version of everything the turn writes in the right order |

`ChatTurnClose` (4.9 million states): one turn with a close, a restart that
leaves the worker alive, and a stream; with one turn `Alike` never holds, so here
`AnswerIsShown` asks for the turn's own message. Its constraint `FollowedWhileCalm` stops
following a stream after a close or restart: a stream changes nothing that
others read and nothing is claimed of it from then on, so every behaviour of
the others is still there with a stream that does not move. `ChatTurnRestart`
(4.3 million states): two turns that answer the same or not, and a restart, so
that the repair meets the next turn; no close, no reader. Two turns with a close
and a restart are beyond TLC here. The two answers are model values, a symmetry set
(nothing but equality is asked of them, and no liveness is checked). The run has a
`VIEW`: since no stream loads, nobody reads the time of an update, a cursor or what
was sent, and of the other times only their order counts, for lists of messages
are ordered by them; `warned` and `calm` are history that the run's two invariants
do not read. States that differ only in these have the same future. A page
of four messages is large enough for one turn and small enough to be full with
two. All properties are safety; deadlock is not checked, since turns end.

Abstractions: no two messages of the same millisecond; `append_message`'s
SELECT and INSERT are one step; turns of a thread follow one another, as the
workbench keeps them; SQLite errors, the repair of locked databases and the mode without
workers are left out; the chat's own tool loop is one choice of an outcome.

What else follows from the steps:

* The failing branch writes the phase (product database) before the error
  (shard): a stream that read in between has a cursor past the final phase, and
  never sends it.
* Projected events carry the time of the event, older than what a live stream
  has already passed.
* A turn that answers what an earlier turn of the thread has streamed gets no
  message of its own when it streamed nothing, or nothing whole, itself:
  `complete_streamed_assistant_answer` (`chat_service.rs:452`-`464`) and
  `has_completed_stream_answer` (`:481`-`499`) look for the text in the whole
  thread. No restart is needed. `AnswerIsShown` excepts a turn whose answer is the
  streamed text of another (`Alike`), and no other.
* Where a whole answer is what another turn has streamed so far ("Yes" of "Yes,
  because ..."), a repair that projects the log at that moment leaves the event of
  the answer out, and the next delta overwrites the text that stood for it: the
  answer of a completed turn is not in the feed at all.
* An earlier close cancels every later turn of its thread
  (`chat_thread_was_force_closed` asks the whole log), and each completion of a
  phase rewrites the phases of all turns with its outcome.
* The answer shows twice when the repair projects it while the streamed text is
  still partial.
* `event_seq` of the chat log is not unique: two writers may take the same one,
  and the two projected messages then share an id.
* A stream delta and a kernel event are appended to the runtime event log in a
  deferred transaction that reads first; a concurrent writer makes it fail at
  once, and `append_worker_event` propagates that.

`ChatTurn_proofs` proves for any number of turns, answers, closes and restarts,
with or without workers that outlive the server:

* `TurnsOrdered`: three invariants of `ChatTurnInv`, inductive one after the other.
  `TypeInv` has the types, among them what a statement of each actor may be, and
  that a snapshot is no longer than the log. `OrderInv` says that the events of the
  log have moments of their own and some event the largest number (`NextSeq` needs
  it), that a message that is no event's has a sort key no other message and no
  event has, that a projected message has the moment of an event with its number,
  that what is still to be rewritten is in the feed and what is still to be
  projected in the log, and that a close that is to project its event has written
  it. It is needed for the types already: the list of the phases picks the messages
  by their rank, which is a function of the sort keys only if they differ, and
  `force_close` projects an event of the log.
  `ClosedInv` says of each turn that it takes its result once and
  before it may complete, that a turn with `completed` in its row, or still in
  its program, was not told of a close, and that what is told of one stays told:
  the log is never cut.
* `FeedTyped` (`TypeOK`), `ClosedTurns` (`ClosedTurnIsNotCompleted`) and
  `SortKeysDiffer` (no two messages of the feed have the same sort key, so a cursor
  never stands for two; the events of one number share one message) follow.

* `PhasesDoSettle` (`PhasesSettle`), from a fourth invariant, `PhaseInv`, on top of
  the three: a phase that says `streaming` is going to be settled, by a statement its
  own request still has before it or, once a restart has cut that off, by one of
  any request, close or repair, unless the log has no outcome (or workers outlive
  the server). What settles a phase is a statement that lists the phases, the
  rewrite of this one, or one that is replaced by a program with such a list
  (`reap`, `check`, `read`). `PhasesSettle` is far from inductive without it:
  several lists and rewrites may be in flight, and an event written by a worker or
  a close gives the log its first outcome after the repair has read it without
  one. `WorkerInv` and `CloseLists` answer that: a worker that may still write is
  one whose request is to take its result (the kill of a close and the end of the
  server end it otherwise), and a close goes on to list the phases after its event.
  With orphans neither holds, which is why `PhasesSettle` excepts them. That a list
  is followed by a rewrite of each phase needs `OrderInv` (the ranks), that a
  phase is only begun by a turn that has begun needs `ClosedInv`.

* `AnswersAreShown` (`AnswerIsShown`), from a fifth invariant, `AnswerInv`, on top
  of the four. It has no hypothesis: closes, workers that outlive the server and
  answers that are a partial text of other turns are all in it. Its parts:
  - `ShapeInv`: the request of one turn is open at a time, and the statement that
    takes the result, looks at it or projects its events is the last it has.
  - `ResultInv`: a worker that reports an answer has logged the event, and the
    events the request was handed (`snap`) hold it until they are projected.
  - `TextInv`: what a message of the shard says. One with an event's identifier has
    the text and the kind of an event with that number; a rewrite in flight holds
    the text the shard still has, since only the request of the open turn streams
    and it does not do both; a streamed answer is the turn's, or a part of it.
  - `ShownInv`: the answer of a turn that completes is shown by a message of its own,
    or another turn reads alike, or it is still to be projected: by the turn, that has the snapshot before it and hides the answer
    only when the shard has it; or after a restart by the repair, that is to read the
    log or to project the event from it.
  A step can lose an answer in four ways: it overwrites the message that shows it
  (`ShownStays`), a statement that was to show it is spent on something else
  (`ToShowGoes` and the `Keeps` lemmas), the turn completes with nothing to show
  (`CompletesBefore`), or a projection is left out for a text that is not there to stay
  (`StreamIsShown`, `ProjectShows`).

What `AnswerIsShown` excepts is what the code does not give: `Alike` is the match
over the whole thread, above. `Doubled` is an `event_seq` taken twice
(`chat_truth.rs:164` reads `MAX + 1` before it inserts), by a worker that outlived
the server and the worker of a later turn, or by a worker and a close: the message
of one event replaces that of the other. `Alike` asks what the match asks, that a
streamed message of the thread has the answer's text, and the feed then shows it
there. For an answer that equals the partial text `Part` it only asks that another
turn has streamed, since the model keeps one partial text and a later delta
overwrites it.
`StreamShowsTheEnd`, of the runs' properties, stays with TLC: it needs what a
page between two cursors can miss.

The proofs assume `TurnsAssumption` and `StreamKindsAssumption` (a streamed message
is an answer or a reasoning, the two kinds of `on_model_stream_delta`).

### 2.12 ModelCall

A call to the provider from `invoke` to its receipt, by callers that are loops
of jobs (`Jobs \X Loops`), each in a process that may be killed at any step.

| Variable | Code |
| --- | --- |
| `pc`, `tries`, `waited`, `left`, `result` | where the call is, attempts, time in `acquire`, the sleep that remains, the outcome |
| `lock` | the lock file: its age (and, as history, whose it is) |
| `file` | the state file with `next_allowed_at_ms`, or emptied |
| `ledger`, `draft`, `returned` | `model_call_ledger.json` of the job, the copy being extended, what `invoke` returned |
| `since`, `seized` | history: time since the last grant; a lock was removed under a living owner |
| `met[c]` | history: another call of the job was at the ledger while `c` itself was |
| `torn[c]` | history: the receipt of `c` was in a ledger that was emptied to be written again, and then its writer was killed or another call read it |

| Steps | Code |
| --- | --- |
| `Begin`, `Reject`, `StartAttempt`, `Settle` | `invoke` and the retry policy |
| `Inspect`, `RemoveStale`, `Create`, `FindLocked` | `acquire` and `remove_stale_lock_if_needed`, whose check and removal are two steps |
| `CheckInterval`, `Wake`, `Grant`, `WriteState` | `enforce_min_interval`; the state file is truncated, then filled |
| `Answer`, `Drop` | the exchange; the destructor, which removes whatever lock is there |
| `ReadLedger`, `TruncateLedger`, `WriteLedger`, `ReadBack` | the ledger and `last_model_receipt` |
| `Kill`, `Tick` | the end of the process without destructors; time |

| Property | Says |
| --- | --- |
| `OneCallAtATime`, `GrantsAreSpaced` | until a lock was removed under a living owner, calls do not overlap and grants are `MinInterval` apart |
| `ReceiptIsKept` | a call that met no other of its job at the ledger gets its receipt back, always; it stays listed (or in the copy about to be written) whoever meets or is killed there later, unless it is `torn` |
| `EveryCallEnds` | every call returns, whoever is killed and whatever is left behind |
| `OrphanIsRemoved` | a dead process's lock goes, as long as callers keep asking |

Run `ModelCall` (189 thousand states): two loops of one job, two attempts, one
kill, time-out and interval 1 and a stale age of 2, so that a living owner's lock
can become stale and a waiter can time out before or after. Fairness: time passes
(`Tick`), and the steps of a call under way are taken (its thread is scheduled,
sockets time out); none on beginning a call or on kills.

Time is kept as ages and remainders, and the clock is not set back. Left out:
the provider without a limiter, I/O errors of lock and state file, validation of
answers, events, the length of the back-off.

`ModelCall_proofs` proves `InductiveInvariant`, `SerialCalls`, `SpacedGrants` and
`KeptReceipts` for any callers, times, attempts and kills. The argument: a
caller with a permit owns the lock file unless `seized` (`PermitHasLock`), which
needs that each living caller past `Create` owns it (`LockIsOwned`); the distance
of grants needs that the state file or the remaining sleep covers what is still
due (`IntervalIsKept`); receipts need to know what each draft holds, and that a
call alone at the ledger finds the file as it left it (`ReceiptsAreSafe`): later
calls of the job, met or not, each write back the receipts they have read, so only
an emptied file makes them forget one. Liveness is model-checked only.

What else follows from the steps:

* Two waiters that both find a dead lock too old remove it one after the other,
  the second the lock the first just created; calls then overlap. The test that
  asserts one call at a time (`model_runtime.rs:2147`) has no dead or slow owner.
* A streamed call has no limit by default and may outlive `stale_lock_ms`.
* A force close kills the worker within a call; the lock of the whole workspace
  then stays for ten minutes while acquires time out after 90 seconds.
* A kill between truncation and write of the state file makes every later
  acquire fail, for good.
* Two loops of one job lose each other's receipts.
* `fs::write` (`model_runtime.rs:1579`) empties the ledger before it fills it. A process
  killed in between loses the receipts of every earlier call of the job, those of
  calls that had long returned among them, and so does another call of the job
  that reads in between (an unreadable ledger counts as an empty one).
  `ReceiptIsKept` names these (`torn`) as the only ways to lose one.
* A retry after a partial stream hands its deltas to the sink again.

### 2.13 FileChange

Workers of different tasks change the files of one workspace. A write, copy,
move, rename or deletion creates a lock file for each path it names, copies what
it is about to change into `tx_backups`, changes it, and records a transaction;
`os.rollback_tx` undoes a recorded transaction. Zip, unzip and rollback take no
locks. Each path has its lock file by the name the model gave it, so that two
spellings of one file do not exclude each other: `Names` are spellings, `FileOf`
what they stand for.

| Variable | Code |
| --- | --- |
| `files`, `lock` | content of each file (absent, truncated, original or of a transaction), of each lock file |
| `pc`, `op`, `want`, `tx`, `text`, `slot` | a call: its step, arguments, names still to lock, transaction, content read, side being undone |
| `backup`, `made`, `recorded` | `tx_backups/<job>/<tx>/{source,destination}`, the arguments of each transaction, the `OsTxRecord`s written |
| `before`, `disturbed`, `met`, `rival` | history: the files when a transaction began; those whose files others changed since; calls that met one no lock keeps apart; who blocked a caller |

| Steps | Code |
| --- | --- |
| `Begin`, `BeginUnlocked` | the checks before locking; zip and unzip |
| `Lock`, `Locked`, `Blocked`, `LockLeaks`, `Unlock` | `acquire_mutation_locks` in sorted order without waiting, `try_acquire`, the destructors |
| `SaveSource`, `SaveDestination` | `backup_workspace_path` |
| `Clear`, `Open`, `SourceGone`, `Fill`, `Remove`, `Record` | removal of the destination, `fs::copy` or `fs::write` as truncation and writing, removal of a moved or deleted source, `record_tx` |
| `BeginUndo`, `Drop`, `Reopen`, `Refill` | `rollback_tx` and `restore_tx_record`, destination first |
| `Fail`, `Kill` | an error at any step; the end of the process, lock files stay |

| Property | Says |
| --- | --- |
| `OverwritesAreBackedUp` | whatever a change overwrites or removes is kept by its transaction, unless a zip, an unzip, a rollback or another spelling met it |
| `RollbackRestores` | a rollback that returns has put back every file of its transaction, if nobody else changed it since, also after a rollback that failed half way; the archive of an unzip is excepted |
| `IInv` | these with what they rest on, and `OneOfTwoGoesOn`: of two calls that want each other's paths not both are blocked by the other |

Run `FileChange` (3.0 million states): two callers, three spellings of two
files, seven calls that cover each operation, both directions, a file copied
onto its own other spelling and what may meet them on either file. `MaxEffort`
bounds calls, which count twice, and rollbacks, failures and kills, which count
once: two calls and two of the others, or one call and four. Callers are
symmetric. Deadlock is not checked: no operation waits, and callers die.

`FileChange_proofs` proves `InductiveInvariant`, `OneGoesOn`, `RollbacksRestore`
and `OverwritesBackedUp` for any callers, names, files, calls and bound. The
argument: two calls at work on one file have met, or would both hold one lock
file (`PutMeets`, from `LocksAreHeld` and `MeetingsAreKnown`); so nobody changes
the files of a call that met nobody (`UnmetIsUndisturbed`); an undisturbed
change has, at each step, kept what it goes on to change (`UndisturbedKeeps`,
`RecordedIsKept`), and a rollback finds it (`UndoneSides`). `PutKeepsOthers`
says once, for every step that writes a file, that it leaves the others'
conjuncts alone. `OneGoesOn` needs that a blocked caller holds only names below
the one it wanted (`RivalsAreOrdered`).

Abstractions: a directory is one content like a file, so that a lock of a
directory and one of a file in it are not related, in the model because there
is no such pair, in the code because their names differ; the check that
a path exists and its backup are one step, as are the record and its event, and
the release of the locks; spellings have lock files of their own
(`safe_blob_name` maps `a/b` and `a_b` to one: a copy between them blocks
itself, and their order is not that of the lock files); zip only reads its sources. Left
out: capability checks, the version records of rewritten artifacts, receipts.

What else follows from the steps:

* A copy of a file onto itself, or onto another spelling of it, removes it, then
  fails; the copy kept of it is named by no transaction.
* A change killed or failing between its write and `record_tx` cannot be rolled
  back.
* A rollback of an unzip removes the archive, of which no copy is made (the
  test of the rollback in `lib.rs` does not look at it).
* A rollback of a copy also takes back later edits of its source, and keeps no
  copy of what it removes.
* A kill, or a failing write of the lock file, leaves a lock that nothing ever
  removes; every later change of that path under that name is refused.

## 3. Plan

Done: `TaskRun`, `ToolLoop`, `ProcessTruth` with `EventLog`, `MessageFeed` and
`ChatTurn`, `ModelCall`, `FileChange`. Next, in this order, each with its runs, mutants and
proofs:

1. `ToolLoop`: a TLC-only module with the iterative search of
   `live_suffix_start_index` as written, checked against `LiveSuffixStart` over
   all short transcripts.
2. `ChatTurn`: a proof of `StreamShowsTheEnd`, from what the two reads of a load can
   have passed.
3. `TerminalServices`: start, list and stop of background services, time-outs
   (`terminal_runtime.rs`): records rewritten from stale copies, a torn record, a
   cancel whose scan races a start. `CancelJob` of `TaskRun` leaves
   `stop_terminal_services_for_job` out.
4. `Closure`: what `process.complete` asks of the log, the advisory latches, the
   status it writes and the loop beside it.
5. `ChatLoop`: the provider loop of `chat_runtime.rs`, which `ChatTurn` takes as
   one choice of an outcome.
6. Composition of `ToolLoop` and `TaskRun`: the outcomes a run's worker can have
   are the ends of a loop.

The whole project should stay checkable in one go. As modules are added, runs
that answer one question at several bounds are merged (the live stream of a
chat turn is part of `ChatTurnClose`), and a statement of the docs that the code
does not keep stays as a run only while no later one says more.

Abstract specifications: `TaskStatus`, `TranscriptProtocol` and `EventLog`
(done); a turn that ends once is worth stating with 2.

## 4. Not modelled, and why

* Tauri shell, command line, Office worker, code generator, DTOs: no protocol
  state of their own.
* Executors other than the file operations of `FileChange`: one function each
  over files and child processes; their outcomes are inputs of `ToolLoop`. The
  office, data, package and artifact executors write files without locks, and
  the rollback plans of the data executor (`data_runtime.rs:490`) are no
  `OsTxRecord`s, so that `os.rollback_tx` refuses their ids.
* Prompts, context packs, budgets of the context window: text and arithmetic on
  estimates; whether to compact is a free choice of the model.
* The model's HTTP exchange: external; its outcomes are inputs.
* Approvals: nothing blocks on them at this commit.
* Settings, model configuration, workspaces, containers, artifacts, diagnostics:
  single records read and written by one statement each.

`PROJECT.json` lists every component with its status.
