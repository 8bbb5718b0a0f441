# A TLA+ model of paper_research_agent

`paper_research_agent` is a Python service (`src/src/paper_agent/`) that carries
out a literature-research task for a user. A conversation collects and confirms
what is wanted, an orchestrator then drives the task through its phases, and
files under a data directory are the only memory that survives the process.
Everything runs on one asyncio event loop; several processes may share the data
directory.

The specifications here model what makes that combination delicate: a run that
works on a task for minutes while users pause, resume, cancel and confirm, handlers
that write back what they read before an await, writes that fail between two files
that belong together, artifacts and agents that several tasks share, and processes
that are lost and find the task again at their next start.

## 1. The system

| Component | State | Operations | Model |
|---|---|---|---|
| Orchestrator (`orchestrator/orchestrator.py`) | `TaskState` object of the run, plans, start time | `create_task`, `run`, phase flow, steps of a plan, verdicts, hooks | `TaskRun` (loop), `PhaseFlow` (flow) |
| Research agent (`common/agent_base.py`, `research_agent/`, `common/llm/base.py`) | message history and mark of the phase, shared by all tasks | `start_new_phase`, `generate_plan`, `synthesize_result`, compression | `PhaseFlow` |
| Evaluation agent (`evaluation_agent/agent.py`) | its own message history (the revision counters are read) | `evaluate_phase` | `TaskRun!Evaluated`, `PaperProcessing!Evaluate`, `PhaseFlow!Evaluate` |
| State persistence (`common/persistence/state_persistence.py`, `manifest.py`) | `task_state.json`, `manifest.json`, index, artifacts | `save_checkpoint`, `record_revision`, `mark_phase_*`, `update_step_in_manifest`, sub-step update with rollback, artifact update | `TaskRun`, `PhaseFlow`, `PaperProcessing` |
| Paper processing (`workflows/paper_processing.py`, `tools/paper_processing/`) | status of five sub-steps, the paper's artifact | `run`, its five tools, resumption | `PaperProcessing` |
| Paper comparison (`workflows/paper_comparison.py`, `common/paper_acquisition.py`, `comparison_export.py`) | `PaperAcquisitionResult`s, exports | acquire, complete, compare, export | `PaperComparison` |
| Conversation service (`common/conversation_application_service.py`) | `_task_states`, `_running_tasks` | `handle_message`, `confirm`, `pause`, `resume`, `cancel`, `refresh_status`, `_on_task_done` | `TaskSession` (tasks), `Chat` (messages) |
| Router, model fallback, preconditions, security (`common/capabilities/`) | none | a message to a decision, and its authorization | `Routing` (operators of `Chat`) |
| Conversation store (`common/persistence/conversation_store.py`) | `session.json`, `messages.json` | `update_context`, `bind_task`, `update_status`, `append_message` with rollback | `TaskSession`, `Chat`, `SessionApi` |
| HTTP API (`api.py`), idempotency, event store | request records, events, subscribers | messages, actions, event stream | `SessionApi` |
| Recovery (`common/task_recovery.py`) | `handles`, `task.lease.json` | `recover_once`, `_run_one`, `claim`, `release` | `TaskSession`, `TaskLease` |
| Memory pipeline (`common/memory/`, `persistence/memory_store.py`) | `memory_jobs.json`, `memory_candidates.json`, `memories.json`, the worker task | `enqueue`, worker, retry, dead letter, start-up recovery, `consolidate` | `MemoryPipeline` |
| Memory recall and extraction | none | text scoring, patterns | not modelled |
| Retrieval tools, LLM adapters, CLI, configuration, logging | none | I/O and formatting | not modelled |

How they interact. `confirm` calls `create_task`, saves the task, binds it to the
session and schedules `run()` with `asyncio.create_task`. While a phase flow
or a hook is awaited, other handlers run: `pause` and `cancel` change the
`TaskState` *object* found in `_task_states` (or a copy from the file if there is
none) and save it; the run sees the request at the top of its loop. When the run
ends, `_on_task_done` is called and sets the session status from the object.
A new process scans `task_state.json` of all tasks, claims a lease file for each
task that is running and belongs to a running session, restores it and runs it.
Messages, confirmations and ended tasks yield memory candidates, which the service
hands to `try_enqueue`; one worker task on the same event loop turns them into
memories, and no failure of it reaches the conversation.

All tasks of a service go through one `Orchestrator` and its one research agent. A
comparison task reads the artifacts of other tasks, and completes them in place. The
HTTP gateway wraps the handlers of the service: it appends the message, calls the handler,
appends the reply and saves the record of the request; events of the runs go to a store
that the stream of a client reads.

What makes each part correct:

- *Run*: task and manifest files stay within one write of each other; the
  manifest is never behind; revisions are bounded; a phase is repeated no more often
  than failures explain; cancelled tasks enter no phase; the task settles.
- *Session*: a request reaches the run that works on the task and is obeyed;
  ended sessions stay ended; what the session says agrees with the task; a session
  that says "running" is being served; a token starts one task.
- *Flow*: what the model is asked is the conversation of the task and round in hand; a task
  may enter every phase; the manifest tells of every step.
- *Paper*: what is reported as passed is in the artifact; the two files agree on the
  sub-steps; the output of the phase is complete; an entered workflow ends.
- *Comparison*: what it reports of a paper is true of the files; it takes nothing from the
  task whose artifact it completes; a completed one is saved with its exports.
- *Chat*: a confirmation starts the workflow on the papers its message named; the
  selection is the one the user made last.
- *API*: a repeated request has one answer and runs once; the count of messages is
  repaired; a client gets all events in order.
- *Lease*: one process recovers a task; nobody's lease is lost except through
  another's removal; no lease leaks; competing processes do not all give up.
- *Memory*: a candidate is stored once however often it is tried; attempts are bounded;
  a new version replaces the one it was made from; a saved candidate is not forgotten;
  a stored memory survives restarts and retries.

`PROJECT.json` lists the hazards line by line, with the properties that
cover them, and the ones no property covers yet.

## 2. Modules

| Module | Role | EXTENDS / INSTANCE |
|---|---|---|
| `TaskLifecycle` | abstract specification: what a persisted task promises (status, phase, revisions) | |
| `TaskRun` | one task, `run()` write by write, with requests, failures, restarts | `TaskLifecycle` (refinement mapping `life <- disk.life, ...`) |
| `TaskRunProofs` | theorems about `TaskRun` | `TaskRun` |
| `TaskSession` | one session, its handlers, runs, callbacks, restart with recovery | |
| `TaskSessionProofs` | theorems about `TaskSession` and `TaskLease` | `TaskSession`, `TaskLease` |
| `TaskLease` | the lease file of one task, system call by system call | |
| `PhaseFlow` | the flow of a phase, for several tasks that share the agents | |
| `PhaseFlowProofs` | theorems about `PhaseFlow` | `PhaseFlow` |
| `PaperProcessing` | the five sub-steps of a paper, write by write | |
| `PaperComparison` | a comparison task beside a task that processes one of its papers | |
| `PaperComparisonProofs` | theorems about `PaperComparison` | `PaperComparison` |
| `Routing` | a message to a decision, as operators | |
| `Chat` | messages, selections and confirmations of a session | `Routing` |
| `ChatProofs` | theorems about `Chat` | `Chat` |
| `SessionApi` | requests, records, message file and event stream of a session | |
| `SessionApiProofs` | theorems about `SessionApi` | `SessionApi` |
| `PaperProcessingProofs` | theorems about `PaperProcessing` | `PaperProcessing` |
| `MemoryPipeline` | the job queue, its worker, the consolidator and the store | |
| `MemoryPipelineProofs` | theorems about `MemoryPipeline` | `MemoryPipeline` |

Phases are numbered in the order of `PHASE_TRANSITIONS`: `1..NumPhases` are worked
on, `NumPhases + 1` is `COMPLETED`, `0` is `FAILED`.

### 2.1 TaskRun

State. `mem` is the object of the run, `disk` is `task_state.json`, `manifest` is
`manifest.json`; `cur` and `verdict` are locals of the loop body; `pc` is the place
in `run()`. `flows` and `cancelled` are history variables.

A step ends at every write another reader can observe and at every await that
yields. `Start` is the prologue; `ObeyRequest` the safe point (211-218);
`TakePhase` the budget check and `mark_phase_started`; `FlowReturns` /
`FlowRaises` the awaited flow with its verdict; `ApplyPass`, `ApplyRevise`,
`ApplyBlocked`, `SaveRevision`, `MarkPhaseCompleted`, `SavePhase` the rest of the
body in the order of its writes; `SaveException` the handler; `Conclude`,
`MarkTaskCompleted`, `Return` the epilogue. `WriteFails` makes a write inside the
`try` fail and keeps what the object had recorded by then, `RunRaises` one outside
of it; `Crash` loses the process at any point; `Restore` is what `resume` and
`recover_once` do with the file.

Abstracted: plans, outputs and evaluations (the verdict is arbitrary, limited by
`Evaluated`), the timestamped checkpoint copies (nothing reads them), the
index, tokens and GPU minutes of the budget.

One thing the reader may miss is the budget. `TaskState.budget` is the default
`Budget()`; the configured budget goes to the `ResearchSpec` only, and the amounts
used are written once, after the loop. So `BudgetStop` is in the model, as in the
code, and no reachable state takes it (see the departures in section 5).

### 2.2 TaskSession

State. `status` and `ctx` are the session file, `store` the task files, `runs` the
runs with their objects, `live` is `_task_states`, `msgs` the message handlers that
are suspended at an await with the context they have read, `leased` the lease files,
`tokens` the tokens issued.

All file operations of the service are synchronous, so a handler is one step,
except `handle_message`, which awaits the router and an adapter: `Send` reads the
session, `RoutedPending` and `SearchFinished` write what they have read back. A run is
one step from one await to the next (`FromLoopTop` is the loop from its top).

The code departs from its documents in three ways. The model does not hide them:
`strayed` records that one of them has happened, and the properties that it would
falsify hold until then (`Orderly`), or in their full form if they are not affected.

- `overlap`: resume while the paused run has not stopped yet;
- `unbound`: a handler that started before a confirmation writes its context
  back, and with it `active_task_id = None`;
- `orphan`: a confirmation in a session status that may not become `running`
  creates and binds a task and then raises.

### 2.3 TaskLease

Every system call of `claim()` and `release()` is a step: create with `O_EXCL`, write,
read, unlink, check of the owner, removal. Files are named after their creator, since
the creator still writes to a file whose name was removed. Its specification is `LeaseSpec`, its
state `leaseVars`: `TaskSessionProofs` extends both modules of the recovery. `robbed` is the history of
removals by another process.

### 2.4 MemoryPipeline

`cands`, `mems` and `jobs` are the three JSON files, each a sequence whose index
stands for the record's id (and, for candidates, its idempotency key). `worker` is
the worker task with the locals of the attempt in hand. Pipeline, consolidator and store are
synchronous between two sleeps of the worker, so other handlers run only in
`YieldPcs`; a step nevertheless ends at every write, since a process may be lost, or a
write may fail, between two of them. `Consolidate` chooses as `consolidate()` does between
`StoreNew`, `Skip`, `StoreConflict`, `Update` and `Merge`; `Supersede` and `Mark` are the
writes that follow.

A text is the set of its terms. Similarity is computed from these sets as in
the code, so which memories match, and whether they are replaced or merged, comes
out of the texts and is not chosen freely. What is lost: two texts with the same terms
in another order are one text, and a text that contains another's terms contains it.

Two history variables name what the code does not promise. `torn` are the candidates
with an attempt that ended between storing the memory and marking the candidate.
`forgotten` are the candidates with an unfinished job, or none, that nothing will process
until another `enqueue()` schedules the worker: after a restart, after a failed write
outside the handlers, after a job became due between `_next_ready_job()` and
`_next_retry_delay()`. `NothingForgotten` and `QueueSettles` say there is no other way.

### 2.5 PhaseFlow

`agent` is the research agent: `_current_phase` and `message_history`, a set of
messages, each with the task and round it is about and its kind. `runs` has for each task
the place in its flow, its `TaskState` as far as the flow reads it, the plan in hand
and what its steps have written; `disk` the checkpoint. A step ends where the code waits for the
model or a tool. `Enter` and `Refuse` are the two outcomes of `start_new_phase`; `AskAgain`,
`PlanMade`, `ContentMade` and `OutputMade` the answers of the model; `StepSucceeds`, `StepUnkept`,
`StepFails` and `StepRaises` the outcomes of a step of the plan with what
`_auto_persist_step_result` and `_auto_persist_step_error` keep of it; `FlowEnds` every way a
flow fails. What compression may leave of a history is `Sent`: everything but some of the messages
that are no anchors.

`mixed` is the history of the tasks that another one wrote beside: `start_new_phase` empties
the history of whoever is in a flow, so nothing can be said of their prompts, and the model does
not hide it. `over` are tasks that were lost after their last phase; they start again with the
revisions they had, so no round before it is known. The loop around the flow is reduced to what
brings a task back into a flow; `TaskRun` has it in full.

### 2.6 PaperProcessing

`mem` is the `TaskState` object, `state` and `man` the sub-steps in the two files, `art` the
content of each artifact, `loc` the copy the workflow holds, `upd` the update that is in
progress. `WriteState`, `WriteManifest` and `WriteIndex` are the writes of one update,
`UndoState` and `UndoManifest` its rollback, each of which may fail; the actions named after
the tools change the artifact. `Crash` and `Recover` are a lost process and its recovery;
`ControlRequest` is a pause between two runs of the phase. `demoted` says that a passed
sub-step was set to BLOCKED (when the artifact of a passed sub-step could not be read), `torn` that
an update ended between the two files for good.

### 2.7 PaperComparison

`files` is the artifact of every paper in the directory of every task, a set of parts; the live
task (`done` counts its passed sub-steps) writes to the same file at the same time. `Reused`,
`Enriched` and `LevelOf` are what the acquisition makes of the artifacts it finds, best first.
`stale` is the history of an artifact that was written back from an older copy. The session, the
file of the task and the runs are as in `TaskSession`, for one task.

### 2.8 Routing and Chat

A message is what the patterns of the router find in it: a term that names a capability,
arXiv ids, ordinals, a path. `Routing` has the catalog, the order of the rules, the fallback to
the model with its checks, the arguments, and the level of confirmation. `Chat` has a handler
in three steps, as in the code: it reads the session and routes, waits for an adapter or the
model, and writes a copy of the context it had read; `strayed` says that such a copy undid what
another handler had written. `Confirm` starts the workflow of the pending action.

### 2.9 SessionApi

`calls` are the requests in progress: they wait for the lock of their identifier, append the
message, wait for the handler, append the reply and save the record. `file` is the message file
with the count in the session file; an append is two writes and a rollback. `stored`, `stream` and
`received` are the event store, the connection of a client and what it got; a connection lists
the stored events when the request arrives and subscribes when the body is started.

## 3. Runs

| Run | Bounds | Shows |
|---|---|---|
| `task_run` | 3 phases, 1 revision, 2 lost processes, 1 failed write | types, safety, refinement of `TaskLifecycle`, `Settles` |
| `task_session` | 1 phase, 1 message, 1 token, 2 tasks, 2 runs, 1 restart | types, safety and liveness of the session |
| `task_session_overlap` | 2 phases, no restart | violated: two runs of one task |
| `task_session_token` | 2 tasks, no restart | violated: one token starts two tasks |
| `task_lease` | 3 processes, TTL 1, clock up to 2 | exclusion up to robbery, no leak, some claim succeeds |
| `phase_flow` | 2 tasks, 2 phases (the second is that of the paper), 1 revision, 2 answers, plans of 2 and 1 steps, 1 failed write, 1 lost process | prompts of the right task and round, steps recorded |
| `phase_flow_refused` | 2 tasks, no failure | violated: a task is refused its phase |
| `paper_processing` | 2 papers, 3 runs of the phase, 1 lost process, 2 failures | passed content is there, files agree, output complete, runs end |
| `paper_comparison` | 2 papers, artifacts with 0, 2 and 5 sub-steps, 1 resume or recovery | reports are true, passed content is kept, completed is saved |
| `chat` | 2 handlers, 3 messages, 2 papers, 2 candidates of which 1 is shown to the model | started is named, selection is chosen |
| `session_api` | 2 requests at a time, 2 identifiers, 3 requests, 2 failures, 1 event, 1 disconnection | idempotence, count, stream |
| `memory_pipeline` | 3 candidates with 3 texts, 2 attempts, 1 lost process, 2 failed writes | attempts bounded, version chain, completed is stored, nothing forgotten, the queue settles |

Why the bounds are enough. In `TaskRun` three phases are a first, a middle and a
last one; one revision makes the limit and the step below it occur; two lost processes
let a restored run be lost again; one failed write in each place is what the error
paths distinguish. In `TaskSession` a phase that is revised returns to the top of
the loop as often as it likes, so one phase shows every order of requests and
awaits; one message is enough to be overtaken by every other handler; two tasks are
what a token used twice needs; two runs are an overlap, one restart meets every
state of the session. A lease protocol with three processes has a holder, one
that read an expired lease and one that comes in between; a clock of twice the TTL
lets a lease expire while it is held. In `MemoryPipeline` the texts `{a,b,d}` and `{a,c}`
merge, their union is similar enough to the first to be replaced by it, and `{a,x}` has a
conflict marker; three candidates make a version of a version, two failures are the last
attempt of a job, and with a lost process one more.

In `PhaseFlow` two phases, one of each kind, make a task enter a phase after the other kind; one
revision brings a previous round, two answers a question that is asked again; a plan of two steps
with the same name overwrites its own entry, and only one of the tasks has such plans, which
halves the states and leaves out no case of a single task. In `PaperProcessing` three runs are
one that fails, one that skips and one that follows both; two failures are a write and the
rollback of another. In `PaperComparison` the sizes of the artifacts are none, a parsed one and
a complete one, so reuse, completion and download all happen. In `Chat` a third message may
overtake the two handlers' first ones; in `SessionApi` three requests of two identifiers are a
repetition during, and one after, the first. `session_api` declares the slots, identifiers,
messages and actions symmetric: the module treats the members of each alike, and the run
checks invariants only.

`CHECK_DEADLOCK FALSE` is set in all of them: a task that has ended, a session that is
closed and a lease that has been released legitimately stop.

### Fairness

- `WF_vars(RunStep)` in `TaskRun`, `WF_vars(RunStep(r))` in `TaskSession`: the event
  loop runs every scheduled task, and awaited model, network and tool calls
  return (they have timeouts) or raise.
- `WF_vars(RecoverLost)` in `TaskRun`: the service is started again and its scan finds a
  lost running task. `TaskLease` and `RunningSessionIsServed` treat what
  may be in the way of it.
- `WF_vars(WorkerStep)` and `WF_vars(Tick)` in `MemoryPipeline`: the event loop runs the
  worker it has scheduled, and time passes. Neither `enqueue` nor a restart is fair.
- `WF_vars(Workflow)` in `PaperProcessing`: the same for an entered workflow; neither the
  entry of a further run nor a recovery is fair. `PhaseFlow` states `WF_vars(RunStep(t))` for
  its runs; its properties are safety.
- Users are never fair: nobody has to resume, confirm or cancel.

## 4. Proofs

The theorems of the eight `...Proofs` modules hold for every value of the constants under the
named assumptions of the modules they are about (sizes are natural numbers, `NumPhases > 0`,
`MaxRuns > 0`, the names of files and processes differ, texts are finite and not empty, a retry
delay is a natural number, no paper is named like the absence of one, and a
comparison has two to five references, as the router allows). Every invariant of a passing run is
a theorem.

`TaskRun`. The safety properties are not inductive. `IInv` adds: when the object and
the file agree (`Synced`), what the object has beyond the file at each point of the loop
body (`AheadInv`, `ExitInv`), which phase is in hand (`CurInv`), which statuses fit
which point (`LifeInv`), that an accepted cancellation is in the file (`CancelInv`) and an
account of executions in which a lost process has used up the execution in
hand (`ReexecutionInv`). From it:
`TypeCorrect`, `RevisionLimit`, `ReexecutionLimit`, `ManifestFirst`,
`CancelStopsPhases`, and `RefinesLifecycle`, the step simulation of `TaskLifecycle`.
`TwoFilesAgree` adds `FilesInv` to it: a revision is in the manifest before it is saved, a
run that marks its end has saved that end, and a task whose end is marked is not restored.

`TaskSession`. `TypeInv` adds to the types that every run has a task that was created, every entry
of `_task_states` a run (`RunsInv`), and that a token has started no more tasks than there are
(`CountInv`, by the cardinality of the created ones). `SessionInv` holds while `Orderly`, and its
parts need each other: a request reaches the one run (`ReachInv`), so that its object is what
the file holds (`ObjectInv`), so that the file's status and request fit the session's
(`FileInv`, `PausedInv`), so that a session that runs has a run, an ended task or a cause to wait
(`ServedInv`); and a message that has seen another task would write it back (`ReachInv`). From it:
`TypeCorrect`, `RequestsReach`, and `SessionTruth` for `SessionAgrees`. The theorems allow any number
of restarts, the run one: after a second one the lease of the first recovery may be in the way.

`TaskLease`. The invariant relates the name, the files and each process's place in the
protocol. From it: `LeaseTypeCorrect`, `HolderKeepsFile`, `ExclusionUnlessRobbed` (as long as
no process removed another's file, at most one holds the lease), `NoLeaseLeftBehind`,
`SomeClaimSucceeds`.

`MemoryPipeline`. `TypeInv` (`TypeOK`, references that point to something, a running and
counted job during an attempt, locals that are ids of stored memories where they are used)
is inductive by itself; every other argument is inductive relative to it, and they are
proved one after the other:
- `TypeCorrect`; `OneMemoryPerCandidate`: a memory is only added for a key that has none;
- `AttemptLimit`, from `CountInv`: a pending job has an attempt left, or one that a lost
  process took;
- `CompletedMeansStored`: a candidate that is given up has its only job running, by
  `OneMemoryPerCandidate`, so it cannot be that of a completed one;
- `NobodyForgotten`, from `WatchInv`: what is unfinished is forgotten by a recorded cause, in
  hand, or pending with a worker that has not overlooked it;
- `VersionChain`, from `ChainInv`: a candidate that is pending after
  its memory was stored is torn or in the middle of the attempt, the attempt's version is
  later than the one it replaces unless the candidate is torn, and what an active version
  was made from is superseded or next to be.

`SessionApi`. `CallInv` (types, one holder per lock, and a request of its own for every execution,
by the cardinality of the waiting slots) is inductive by itself, and the rest is relative to it:
- `RepeatedRequestsAgree`, from `AnswerInv` (an id in execution has no record, and whoever was
  answered got the record) and `ExecutionInv` (an execution failed, goes on, or left its record);
- `CountIsKept`, from `OneWriter` and `FileInv`: between the two writes of a message the count is
  one behind, and nobody else writes;
- `NoEventLost`, from `StreamInv`: what is left to deliver rises above what was received, and
  while a connection exists only missed events are outside both;
- `TypeCorrect`, from all of them. The slots need not be finitely many: those in use are.

`PaperProcessing`. One inductive `IInv` for the four properties. `PlaceInv` says which sub-step is
in hand through an update and a tool; `SyncInv` and `UndoInv` where memory, `task_state.json`
and the update in progress can differ; `AgreeInv` the same for the manifest; `CandInv` that the
candidate is the offered paper. `ContentInv` carries the content: the sub-steps in memory, in the
file and after a rollback are `Good` (passed in order, on one paper, with their content in its
artifact), those before the one in hand have passed and those behind it have not, and the local
copy is the artifact, so that a download or a parse, which remove later content, never hit a
sub-step that passed. From it:
- `FilesAgree`, from `AgreeInv`: a rollback restores what the manifest had, or is recorded as torn;
- `PassedContent`, from `Good` of the file; `OutputComplete`, since the loop ends with all passed;
- `TypeCorrect`, which needs the invariant for the paths that index artifacts.

`PaperComparison`. `ArtifactInv` is inductive for `ContentKept`: every write to the file of the
live task adds to it, takes at most the translations, or is recorded in `stale`.
`CompletedSaved` follows the workflow to its end: `ProgressInv` (what has been saved at each
point), `StateInv` (the types the end depends on) and `EndInv` (as long as the research phases were
not run on it, only the comparison completes the session, after the file says so). `ReportsTrue`
needs `AcquisitionInv`: an artifact has a PDF, and the live task has none before its first sub-step
(`FilesInv`), so that what is reused with its parsed text has all that a complete paper needs; and
while the model is asked for a summary, both the copy that was read and the file in the owner's
directory have the parsed text (`CurrentInv`), so that either of them may be written. A report
that was true stays true since no write takes more than translations from what all tasks have of
a paper. `TypeCorrect` follows from the four of them.

`Chat`. That a confirmation starts what was named depends on all handlers together. `TokenInv`: the
messages in progress have tokens of their own. Hence a token of a message that has ended is
`Settled`, nobody rewrites what was asked for it. `PendingInv`: a pending action, in the session and
in every copy a handler kept, has a settled token and is what was asked for it, references
of the model apart. This rests on lemmas about the decisions of `Routing`: only the
model refers to a candidate by its index (`RoutedSource`), only a paper's processing and a
comparison are confirmed (`Confirmed`), and what is made of such a decision is what the message
meant (`PendingIsMeant`). From it `StartedAsNamed`; `SelectedAsChosen` is inductive by itself.
`TypeCorrect` is inductive relative to them, by what the routers decide (`DeterministicType`,
`RoutedType`): what is asked for names papers, and the candidate a reference of the model points to
exists in the context it was routed on. `NamedOnce` is about the loop of `_comparison_references`, a
recursive function: it names exactly the papers it is given, each once. Its induction takes the
least number of references for which that fails (`Least`), after `LoopExists` has shown by the same
argument that there is a function that satisfies the recursion.

`PhaseFlow`. One `IInv` with four parts. `TypeInv` adds to the types what each point of a flow knows
of its locals (`Placed`): the plan, the step in hand, how often a question was repeated; from it
`TypeCorrect`, which includes the limits of rounds and attempts. `RecordInv` is about the steps
that are behind the run: each has its entry in the manifest, with the result that is reported of it
(`Recorded`, `Reported`), and an entry of the same name is only replaced by a later step of the
plan; from it `Recording`. `LastInv` says which results the object and the checkpoint keep for the next
revision: those of an earlier round of the phase in hand, of the one before if no write failed, and
none in a first round; no phase ahead has been revised (`LastKept`, `RoundsKept`). `HistoryInv` says
what is in the history of the shared agent: while a task is in its flow and nobody wrote beside it,
all messages are its own and of the round in hand (`Owned`), but for the summaries of rounds before
it, the last of which is there if no write failed (`Preceded`). From it `Prompts`. The parts
need each other in this order, since what a history should hold is read from the rounds, and those
from the place in the flow.

Proved and not among the runs' properties: `RevisionsBounded` and `StoredOnce`.

Only model-checked: everything with fairness (`Settles`, `RequestsAreObeyed`, `QueueSettles`,
`RunsEnd`), since liveness and `ENABLED` are out of the prover's reach. An induction theorem that
takes an operator cannot be instantiated here; where a recursive function had to be reasoned
about (the loop of `_comparison_references` in `NamedOnce`, the parser of Chinese numerals in
`NumeralsAreRead`), its loop is followed by hand, by way of a least counterexample, and the merge
of artifacts in `PaperComparison` is written without a recursion.

`NumeralsAreRead` says what `_parse_candidate_number` returns for the numbers as they are
written: the digits with the units ten and hundred, a zero before a single digit after the
hundreds, and two such groups around the unit ten thousand. Other strings of digits and units,
which the code accepts too, and the unit thousand are in the model but not in the theorem.

## 5. Findings

Three runs state what the repository's documents say and are violated; `PROJECT.json` quotes
the documents.

- `task_session_overlap`: pause, then resume before the safe point, gives one task two runs.
- `task_session_token`: a search that was in progress during a confirmation restores the
  spent token, and it starts a second task.
- `phase_flow_refused`: `start_new_phase` compares the phase with a mark that belongs to the
  agent of all tasks and is never taken back. A task is refused the phase that another task
  entered last; after a failure in the first phase every later task is refused until the
  process is restarted.

Further departures are stated at the end of the modules and are no runs of the project. Each
can be seen by making the definition an `INVARIANT` (a `PROPERTY` where it is an action
formula) of the module's configuration:

| Definition | The document | The code |
|---|---|---|
| `TaskRun!BudgetStopsTask` | openspec task-lifecycle: execution stops when the budget is exceeded | the configured budget is not the one compared, and the use is counted after the loop |
| `TaskRun!CancelIsFinal` | P34: a cancelled task is not started again and shown as cancelled | `run()` ends by writing "failed" over it |
| `TaskSession!CompletedTaskNotFailed` | P34: the session of a completed task is completed | the callback of a recovered run takes its own unfinished run for a failure |
| `TaskLease!OneRecovers` | `TaskLeaseStore`: prevents two workers from recovering one task | the lease unlinked need not be the one that was read |
| `MemoryPipeline!MemorySurvives` (`MemoryPipelineMerge.cfg`) | F, requirements: restarts and retries lose no data | a repeated merge supersedes its own version, and no version is active |
| `PaperProcessing!ManifestAgreesWhenPassed` | the gate of the phase: status and manifest agree | a sub-step whose update was cut off is skipped, its manifest entry is never repaired |
| `PaperComparison!CompletedIsCompared` (`PaperComparisonResumed.cfg`) | P31: a completed comparison has its `paper_comparison.json` | resume and recovery run the seven research phases on it |
| `PaperComparison!TranslationIsKept` | P30: status and artifact agree | a comparison that parses the artifact again drops the translations |
| `PhaseFlow!NobodyIsMixed` | A01: during a phase the history is never reset | a task that enters a phase resets the history of all |
| `PhaseFlow!EvaluatedAlone` | A01: every evaluation is independent | the evaluation agent is initialised once, and its prompts stay in its history |
| `Chat!ReferenceIsProcessed` | P32: a reference is resolved to a paper before it is executed | a reference that only the model found is passed on as it is |
| `SessionApi!ExecutedOnce` | P36: a repeated request is not executed again | the record is saved after the handler, so an exception or a lost process in between repeats it |

Where such a departure would falsify a property of a run, the property is stated up to a named
history variable that records the departure (`strayed`, `stale`, `torn`, `demoted`, `mixed`,
`robbed`, `forgotten`), and holds in full until it happens.

One more thing came out of `PhaseFlow`: `save_artifact` treats empty data as missing, so a step
whose tool succeeded with an empty result is recorded as failed (`StepUnkept`).

## 6. Limits and plan

Not modelled: recall and extraction of memories (pure functions of texts); the retrieval tools,
LLM adapters, CLI, configuration and logging (I/O and formatting); the rebuild of the memory
index, deletion of memories and corrupt files; the precondition resolver that no caller uses;
two processes that write one session, which is outside the documented single-process boundary;
the contents of artifacts, prompts and answers. `PhaseFlow` leaves out the plan that the paper
workflow asks for when there is no retrieval metadata (`PaperProcessing!SelectCandidate` has it).

Next, in this order:

1. Lease and session composed: two processes that read all candidates before the first claim
   (`task_recovery.py:128`).
2. The restoration of `TaskRun` and `TaskSession` related: a run of the session as an abstraction of
   the run of the task.
3. The evaluation checks of the phases other than that of the paper.
