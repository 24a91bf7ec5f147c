# autodev in TLA+

autodev is a coding agent: it reads a PRD, lets a language model plan tasks,
implements each task in a workspace, validates it with linters, type checkers
and tests, repairs it, and does all of that interactively, unattended
(`autodev autonomous`) or behind a GUI server that spawns runs. This directory
specifies the parts of it that keep state across steps, failures and restarts, and
the decisions those parts rest on.
Paths without a directory are under `src/autodev/`; line numbers are of the
commit the modules were written from, and `PROJECT.json` maps every definition
to its lines.

## 1. Inventory

### Components that are modelled

**Task engine** (`loop.py`, with `loop_checkpoint.py`, `loop_validators.py`,
`quality_score.py`, `experiment_log.py`).
State: the ids that are completed, failed and skipped in this run, the number
of repairs asked for in this run, per task the validation rows and the repair
counter, the workspace and its snapshots, `.autodev/checkpoint.json`.
Operations: open a batch, gather a chunk, implement, review, validate, revert a
regression, ask the fixer, give up and roll back, record results, write the
checkpoint, finish, resume.
Interaction: the tasks of a chunk are coroutines that share the workspace and
the counters; each awaits the model client; the schedule comes from task
planning; a resume takes the checkpoint of an earlier process.
Hard: rollback of a *whole* workspace by one of several concurrent tasks; run
limits shared by concurrent tasks; what a failure, a crash and a resume leave
of the results.
Correct when: repairs are bounded, a failed task leaves no trace, dependencies
come first, completed work is neither forgotten nor redone, every run ends.

**Task planning** (the generation in `loop.py`, `loop_checkpoint.py`,
`loop_tasks.py`, `task_scheduler.py`).
State: `.autodev/generate_cache.json` (one plan and the key it was made for),
the completed ids of the checkpoint, the files of the workspace; within a run
the plan, and the loops of the sort, the levels, the batches and the chunks.
Operations: take the cached plan or analyse, specify and plan; scaffold from a
template, resolve file patterns or have the plan repaired, write acceptance
tests; sort, read the checkpoint, schedule.
Hard: a run starts over what earlier runs left, any answer may fail, a death
may come between any two writes; cache and checkpoint do not refer to each other.
Correct when: what a resume skips was done, what tasks wrote survives the next
generation, exactly the cyclic plans are refused, order respects dependencies,
concurrent tasks declare different files, nothing is lost or doubled when a
batch is cut into balanced chunks.

**Model client** (`llm_client.py`, and `_llm_json` in `loop.py`).
State: token totals and counters shared by all coroutines; per call the
endpoint, the retry and the repair it is at.
Operations: begin a chat, count an answer, refuse at the budget, retry with the
next endpoint, back off, give up, repair a malformed answer.
Hard: the budget is tested after the fact by several coroutines; a chat has
four ways to end and each must be counted once.
Correct when: overshoot is bounded, the fallback chain is walked, the counters
add up, calls end.

**Autonomous session** (`autonomous_mode.py`, `_start` and what it calls).
State: `.autodev/autonomous_state.json` (status, phase, iteration, attempts),
the report and the incident packet; in memory the success flag and the clock.
Operations: start, resume and normalise, preflight, take an iteration, run the
workflow, evaluate gates and stop guard, record the attempt, decide, finish.
Hard: a process may die between any two writes; locals are not restored; the
guard reads a history that a resume may cut or recover.
Correct when: no iteration runs twice, recorded evidence survives, exit code 0
is earned, a guard stop holds, every start ends.

**GUI process manager** (`gui_process_manager.py`).
State: a table of processes under a lock, its file, the child processes.
Operations: spawn, retry by process and by run, stop with two waits, get and
list with a poll, load at start.
Hard: children outlive the server; a child ends while `stop` waits for it; the
second wait may raise; a client repeats its requests.
Correct when: the table tells the truth, retries are idempotent and form
chains, the file follows, the lock is released.

**Incident delivery** (`autonomous_incident_send.py`, and in `autonomous_mode.py`
the end of a failed session, `incident-send` and `incident-replay`).
State: in the run directory the incident packet, the history of attempts and
the audit trail; in a process the counts it read once and the rows so far.
Operations: begin an attempt, suppress or hand over target by target, post to a
webhook again, append the audit lines, rewrite the history.
Hard: decisions rest on a history read at the start and written at the end;
processes may overlap or die in between; an answer may be lost; decisions are
stamped with whole seconds.
Correct when: a row tells what its target received, whatever the history keeps
can be replayed, and dedupe and rate windows hold over all callers.

**Workspace and context** (`workspace.py`, `patch_utils.py`; `context_engine.py`,
`context_cache.py`).
State: the files, snapshots (a manifest and backups under flat names), per task
the files last shown to the model, the index, the cached contexts.
Operations: apply a list of changes and undo it when one fails, snapshot, roll
back; choose the files of a prompt, stub those that have not changed.
Hard: an operation is many file operations and may fail or die between any two;
other tasks write and roll back between two prompts of a task.
Correct when: a list is applied whole or not at all, a rollback gives back what
was snapshot, a prompt shows files as they are and stubs only what was shown.

**Validation** (`validators.py`, `validator_graph.py`, `adaptive_gate.py`,
`smart_scope.py`, `exec_kernel.py`, `env_manager.py`, `failure_analyzer.py`,
`parallel_fixer.py`, and in `loop.py` and `loop_validators.py` what joins them).
State: the virtual environment and its stamp, the rows and counters of a task,
the history of validators the adaptive gate reads.
Operations: bootstrap, select and order the validators of a task, run them,
classify failures, ask one fixer or several, merge, validate again what failed,
validate the whole, repair a performance regression.
Hard: verdicts are kept, skipped and softened by what earlier rounds and
earlier runs gave.
Correct when: a pass was earned, a failure is felt by the next gate, no
validator is skipped for ever, fixers work apart, the environment is current.

**GUI server** (`gui_mvp_server.py`, `gui_api.py`, `gui_audit.py`,
`trust_delivery.py`).
State: compare snapshots, a run's approvals and workflow, delivery rows, the
audit log, run directories; nothing in memory and no lock.
Operations: some twenty handlers that change files, each of several steps.
Hard: threads overlap on the same files, disks fill up, targets fail, the server
dies between two steps, people edit files by hand.
Correct when: integrity marks mean what they say, retention keeps the newest,
delivery rows are true, answers and audit tell what happened, requests end.

**Configuration and records** (`config.py`, the policies in `autonomous_mode.py`,
`perf_baseline.py`, `autonomous_gate_signals.py`, `trust_intelligence.py`).
State: the configuration, the baselines, the files a session leaves in
`.autodev` one by one, the trust packet, its reviewers' approvals.
Operations: load and validate a configuration, resolve policies from it, judge
an attempt, choose the next strategy, write the artifacts, summarize, approve.
Hard: two parsers read one file; the artifacts are of different ages when a
process died between two of them; time passes.
Correct when: both parsers mean the same, a strategy without effect is not
tried a third time, the summary tells one session, no human is spared who
should look.

### What is not modelled, and why

| part | files | reason |
|---|---|---|
| multi-strategy exploration | `multi_strategy.py` | candidates are applied, scored and rolled back in sequence, with the operations of Workspace; a candidate for a later module |
| observers of a run | `run_trace.py`, `progress.py`, `cli_progress.py`, `run_status.py`, `run_analyzer.py`, `config_tuner.py` | they change nothing anybody decides by |
| renderings and exports | `report.py`, `xai_*.py`, `autonomous_*_export.py`, `autonomous_ticket_draft.py`, `autonomous_evidence_schema.py`, `gui_failure_hints.py` | texts made of files that are modelled |
| read-only pages | `gui_mvp_server.py`, `gui_mvp_dto.py`, `gui_artifact_schema.py` | normalisation for display |
| prompts, templates, plugins | `roles.py`, `schemas.py`, `template_registry.py`, `plugin.py`, `prd_parser.py`, `json_utils.py`, `browser_automation.py`, `main.py` | wording and loading, no state across steps |
| scripts | `src/scripts/` | checks and demonstrations run by hand |

The hazards, each at its line and with the properties that watch it, are in
`PROJECT.json`.

## 2. Plan

Order of work, the most important behaviour first; 1 to 9 are done, but for
what section 6 names at its end.

1. `TaskRun`, `TaskPlan`: what the agent does to the code it writes. The two
   compose through an assumption: `TaskPlan.ScheduleSound` is, word for word,
   `TaskRun.ScheduleAssumption`.
2. `ProcessManager`, `AutonomousSession`, `LLMClient`: what survives processes,
   and what every coroutine shares.
3. `IncidentSend`: dedupe and rate windows over a persisted history.
4. `PatchApply`, `Workspace`, `AtomicWorkspace`, `TaskContext`: one file
   operation at a time, shown to implement the atomic workspace that TaskRun
   assumes.
5. `ExecKernel`, `Validators`, `ValidatorSelection`, `FailureAnalysis`,
   `Validation`: what a validator's row in TaskRun stands for.
6. `GuiAccess`, `GuiRequests`, `GuiSnapshots`, `GuiTrust`, `GuiRuns`,
   `GuiServer`: the server around the process manager.
7. `RunConfig`, `QualityGates`, `SessionSummary`, `TrustRecord`, `Records`: the
   session with everything it reads and writes; every step is a step of
   AutonomousSession or leaves its variables alone.
8. `Generation`: from a PRD to the plan and the checkpoint, over the runs of a
   workspace; TaskPlan extends it with the schedule of that plan.
9. Theorems about the newer modules: every property of Validation's run, the
   refinement of Workspace and the truth of its prompts, IncidentSend's rows,
   dedupe and rate limits, the success of a session, its stop guard and that it
   runs no iteration twice, that Records implements AutonomousSession, its
   policies are sound, its summaries true and its trust packets earned, the
   work of accepted tasks, and that `ScheduleSound` holds of every plan, so that
   TaskRun's assumption is discharged, and every property of GuiServer's run.
10. `MultiStrategy`.

Every module is written so that it can be proved about: constants with named
assumptions, one action per operation, no RECURSIVE operator.

## 3. The modules

A definition whose name extends the name of the definition after it
(`OverBudgetLate` before `OverBudget`) is that definition with a plausible bug.
No specification uses it; it shows that a property notices the bug.

### TaskRun (with TaskRunProofs)

| model | code |
|---|---|
| `phase`, `batch`, `pending`, `ran`, `chunk` | the batch loop of `run_autodev_enterprise` |
| `completed`, `failed`, `skipped`, `checkpoint` | `completed_ids`, `failed_ids`, `skipped_ids`, `.autodev/checkpoint.json` |
| `ws`, `snap[t]` | the workspace and the backup `pre_task_<id>` |
| `pc[t]`, `rows[t]`, `loops[t]`, `total` | a coroutine of `_run_task_execution`, `last_validation`, its repair counter and the run's |
| `OpenBatch`, `OpenChunk`, `BatchReturned`, `RecordPassed`, `RecordFailed`, `NextBatch`, `Finish` | the scheduler |
| `StartTask`, `ImplementReturns`, `ReviewReturns`, `FixReturns` | what a coroutine does between two awaits |
| `Attempt` and its parts `Pass`, `GiveUp`, `AskFixer`, `Kept`, `Before` | one round of validate, revert, decide |
| `Crash`, `Resume` | an exception or a kill; the next attempt of a session, with resume |

The grain of atomicity is the await: asyncio switches coroutines nowhere else,
and validators are run synchronously. What the model writes is abstracted to
"the n-th changeset of this task in this run", so a later state can be compared
file by file with an earlier one. `base`, `accepted` and `fixes` are history.

### Generation and TaskPlan (with TaskPlanProofs)

| model | code |
|---|---|
| `disk` | the generation cache, the completed ids of the checkpoint, and for every file who wrote it last |
| `plan`, `run` | the locals of `run_autodev_enterprise`: the plan, the cache key, `resume`, the project type, `completed_task_ids` |
| `CommandLine`, `Attempt` | `autodev`, or the first attempt of a session, in a new directory; a later attempt of the session |
| `TakeCached`, `Analyse` to `MakePlan` | the two branches of `use_cached` |
| `Scaffold`, `ResolveFiles`, `RepairPlan`, `AcceptanceTests` | what both go on with |
| `LoadCheckpoint`, `RunTasks` | the checkpoint read and rewritten; the run of the tasks, which is TaskRun |
| `Stops`, `StopsInTests`, `TornCache`, `TornCheckpoint` | an answer that cannot be repaired, a no of the operator, a death |

A key stands for all that `_generation_cache_key` hashes. Since the strategy of
an autonomous attempt is part of its quality profile, a retry with another
strategy has another key. `seen` is history: which tasks were completed under
which plan.

TaskPlan then has one action per round of each loop: `SortOne` (Kahn's
algorithm), `LevelOne`, `BatchOne` (first fit by declared files), `ChunkOne`
(longest first into the least loaded slot). `Chunks` is the transposition of
the slots that `schedule_batch_chunks` returns.

### LLMClient (with LLMClientProofs)

`pc[c]` is a call of `_llm_json`: "ready" to post a prompt, "posted" and
waiting for the answer, "waiting" for a backoff, or over in one of five ways.
One action per outcome of the post: `Answered`, `BudgetExceeded`, `NotText`,
`RetryableError`, `FatalError`. `Cancelled` is the end of the event loop after
a sibling's call raised. `Fallback` is by the place at which `list.index`
finds the endpoint, as in the code. `tried` and `answered` are history.

### AutonomousSession (with AutonomousSessionProofs)

`st` is the dictionary `state` of the process, `file`, `report` and `incident`
what is on disk; every `Persist` is one call of the code's `_write_state`, and
`Crash` may come between any two. `StartResume` loads, recovers and normalises;
`Plan`, `Execute`, `AttemptEnds` are the three writes of an iteration;
`Complete`, `GuardStop`, `IterationsSpent`, `Retry` the decision after it;
`Finish`, `EmitIncident`, `EmitReport` the end. An attempt keeps its verdict
and the two counts the stop guard compares. `TornWrites` allows a crash inside
a write, which the code does in place.

### ProcessManager (with the last part of GuiProofs)

`items` is the table, `file` the state file, `child` the operating system's
view. The lock is held over an operation, so an operation is one action, except
where the world moves meanwhile: `busy` is a `spawn` between Popen and its
write or a `stop` in one of its waits. `Restart` is the death of the server at
any moment and the load of the file by the next one. `asked` (the request each
child was started for) and `orphaned` (the children whose server died between
Popen and the write) are history: "one retry per request" is said of children,
and those are the ones a later retry cannot know of.

### IncidentSend (with IncidentSendProofs)

| model | code |
|---|---|
| `packet`, `history`, `audit` | `autonomous_incident_packet.json`, the attempts of `autonomous_incident_send.json`, the lines of `autonomous_incident_send_audit.jsonl` |
| `job[s]`, `existing[s]` | the locals of `send_incident_packet`, and the history `_persist_incident_send_attempt` reads before it audits |
| `SessionFails`, `OperatorSends`, `OperatorReplays` | the three callers up to the loop over the targets |
| `Suppress`, `DryRun`, `Delivered`, `Refused`, `Transient` | one target, or one post to a webhook |
| `Audit`, `Write` | the two halves of `_persist_incident_send_attempt` |
| `Crash`, `Tick` | the process dies, also inside the write of the history; time passes |

Time is in ticks, several to a second, since a decision is stamped in whole
seconds and compared with the exact time. `log` (what targets really received)
and `clean` (nothing has overlapped, no crash has hidden something sent) are
history. A dry run keeps the packet from stdout and from the webhook, not from
the log target (`Loggers`). `incident-send` passes no windows on, so it obeys no limit and its
`--force-send` has no effect; a live replay is always forced.

### PatchApply, Workspace, AtomicWorkspace and TaskContext (with WorkspaceProofs)

| model | code |
|---|---|
| `files`, `store` | the files under the root, `.autodev/snapshots/<name>` |
| `op` | the loop an operation is in, its remaining and its done parts |
| `ApplyBegins`, `ApplyNext`, `ApplyFails`, `UndoNext` | `apply_changes`: plan, write one by one, undo in reverse |
| `SnapshotBegins`, `RollbackBegins` and the steps of `OpStep` | `snapshot`, `rollback`: clear, copy, manifest; remove, restore |
| `Die` | the process dies between two file operations |
| `Ask`, `AnswerApplied`, `recorded` | a task's prompt and its answer, `_record_iteration` of the cache |

A file is a sequence of lines and a patch is applied line by line, with the
code's fallbacks. `AtomicWorkspace` is the abstract specification: its
`Apply`, `Snapshot` and `Rollback` are single steps. The refinement mapping
shows the files as they were while an operation is under way, and a snapshot
once it is complete; a death may leave anything. TaskContext adds the prompts
of two tasks to the same files.

### ExecKernel, Validators, ValidatorSelection, FailureAnalysis and Validation (with ValidationProofs)

The first four are pure: which command a validator runs and whether the kernel
allows it; what its result becomes; which validators a task runs and in which
order; what failures are taken for, how hard the fixer is told to try, and how
several fixers share the failures and their answers are merged. A filter is
`Those` (the elements at the positions that pass, in order), a sort puts an
element where as many come before it, and groups of failures are kept by the
rank of their category, so that a theorem can be proved about each. `Validation` is
the state: `tool[v]` is what validator v would give if it ran now, `env` the
environment with its stamp, `job` the locals of a task, `lasts` and `seen` what
the next round and the next run's gate read. One action per phase of a task:
`Implement`, `Validate`, `TaskFails`, `AskFixer`, `FixersAnswer`, `ApplyFix`,
then `FinalValidation` and `PerfRepair`; `EnsureVenv` to `WriteStamp` are the
bootstrap, `Crash` and `Edit` the world.

### GuiAccess, GuiRequests, GuiSnapshots, GuiTrust, GuiRuns and GuiServer (with GuiProofs)

`h[t]` is the request thread t is at and how far it is; a step is one read,
write, append, post or answer, so that every interleaving of the unlocked files
is a behaviour. `files`, `lines`, `sent`, `runs` are the disk, the logs, what
delivery targets received, the run directories. `GuiAccess` resolves a role as
the server does. `Alter` is a person who edits a file, `Die` the end of the
server between any two steps; a full disk and a failing target are choices of
the step they befall. `mixed` marks the groups whose requests overlapped or were
cut off and the requests that stopped halfway in their work on a file (a full
disk, a markdown that could not be removed), `touched` the requests that changed
something: both are history.
`ProcessManager` is the table behind `GuiRuns`, where a directory only has a
number of live processes. `outcomes` in `h[t]` is the local list a delivery
collects and its audit row repeats; `seen` is what a handler has read and still
relies on, `alone` and `stamp` whether it overlapped and when it looked.
A deletion is four steps, as in the code: it looks for the snapshot
(`DeleteOne`), removes it (`Unlink`), looks for its markdown
(`LookForMarkdown`), removes that (`DeleteMarkdown`). Either removal can fail
(`DeleteFails`), because another thread was there first or for a reason of the
disk's, and is then answered 422, also when the snapshot is gone already. The
limits of a retention are what the code makes of the body (`Limits`, `Unfit`):
absent, `""`, false and the number 0, which equals False, are no limit, the text
"0" and a fraction below 1 are the limit 0, a negative one is 0, what is no
integer is refused, and an infinite one is an error nobody catches.

### RunConfig, QualityGates, SessionSummary, TrustRecord and Records

`RunConfig` is `load_config` and the second parser of `autonomous start`, over
values that keep their YAML kind. `QualityGates` computes a verdict from raw
rows: the performance baseline, signals, gates with their own history, the
strategy of the next attempt. `SessionSummary` and `TrustRecord` are what is
written at the end and what is read back. `Records` extends AutonomousSession:
each action is one of its actions with the data that decides it, followed by
the writes of its artifacts, one per step (`WriteNext`), with a death between
any two. A trust packet is computed when it is written; reviewers approve,
steer the workflow, and hours pass.

### MC modules and configurations

An MC module names the values its configurations use: plans, files, endpoints,
lists of changes, profiles, scenes of requests, configurations, outcomes. It
changes no definition. The rows under "Not so" in the comments of a
configuration, and those of one ending in `Repro`, where one is active, are
properties the code does not have, each with the settings that show it.

## 4. The runs

Runs that pass (the states are those of one TLC run):

| run | instance | what it shows |
|---|---|---|
| TaskRunChain | three tasks in a chain, one file each, two validators, up to two findings, three repairs, two runs, continue on failure | over failures, skips, regressions, crashes and a resume: `DependenciesFirst`, `PassedIsRecorded`, `AcceptedWorkKept`, `FailedTaskUndone` |
| TaskRunParallel | t1 and t2 concurrently, t3 behind t2, reviewer and time budget on, first failure ends the run, two runs | `FixBudget` when two coroutines draw on one limit, and `RunEnds` under fairness |
| TaskPlan | one run of every dependency graph over three tasks (with self-loops, cycles and an unknown id) and a fourth behind one of them, and of every assignment of two files and two durations to four tasks: `ScheduleSound`, `FilesApart`. Two and three runs of one workspace with one and two keys, two plans that give the same ids to other work, a pattern that matches once a task has written its file, a plan of another type, a cyclic one, specifications and acceptance tests | `SkippedWasDone` where all runs have one key and no plan was repaired, `WorkSurvives` |
| ProcessManager | three processes, two run ids, one correlation id, one restart | `RetryChain`, `OneRetryPerRequest`, `EndedIsTrue` |
| AutonomousSession | three iterations, guard limits two and one, a session of three processes | `NoIterationRunTwice`, `EvidenceKept`, `SuccessIsEarned`, `StartEnds` |
| LLMClient | two calls, three endpoints, four posts a chat, one repair, a budget two answers exceed | `BudgetCaps`, `ChatsAccounted`, `CallEnds` |
| IncidentSend | two processes, a printed target, a logged one and a webhook, lists with and without a repetition, two posts, a dedupe window of one second and a rate window of one and a half, two attempts in three half-second ticks | `RowsAreTrue` through overlap, crashes and torn writes, in a dry run too; `DedupeHolds` and `RateHolds`, to half a second, where nothing overlapped and no crash hid something sent |
| Workspace | five paths, one below a file and two with one backup name, six lists of changes with patches, deletions and texts that cannot be written, one snapshot, two tasks and three prompts, one death | `SnapshotsSound`, the refinement `ImplementsAtomic`, `PromptsAreTrue` |
| Validation | eight profiles: the gate over four runs, the graph strict and relaxed, the narrow scope, two fixers with three repairs, changing requirements; deaths and edits between the steps | `PassIsEarned`, `FailureIsFelt`, `SkipsAreBounded`, `CompletedIsSound`, `FixersApart`, `EnvCurrent` |
| GuiServer | eighteen scenes of two to five requests on two threads, each with the death, the faults or the ticks it is about | `IntegrityTrue`, `RetentionKeepsNewest`, `DeliveryRowsTrue`, `AnswersAreTrue` |
| Records | a plain configuration and some three hundred that differ from it in a value or two, with and without gates; four outcomes of a workflow; two processes of one session; a reviewer | `PolicyIsSound`, `NoThirdTry`, `SummaryTrue`, `TrustIsEarned` |

Each configuration names in a comment what holds in it too and is not among its
properties: type invariants, `CompletedIsFinal`, `CompletedRunComplete` and
`CheckpointGrows` of TaskRun, `RefusedIfCyclic`, `DependenciesSortedFirst` and
`ChunksSound` of TaskPlan, `FileFollows`, `EndedIsFinal` and `LockReleased` of ProcessManager,
`ChainTried`, `HistoryAudited`, `GuardSparesSuccess`, `GuardHolds`,
`EscalationTrue`, `ListingWhole`, `WorkflowFollowsActions`,
`RequestsEnd`,
`OverdueIsEscalated`. Most of these are proved or follow from a few lines.

`FailedTaskUndone` is stated so that it also holds with a concurrent sibling:
what comes back is the workspace at the start of the failing task. That this
takes a sibling's work with it is the finding of TaskRunLostWork.

One run shows the code contradicting what the repository says of it:

| run | property | what happens |
|---|---|---|
| TaskRunLostWork (`TaskRunRepro.cfg`, first row) | `AcceptedWorkKept` | two concurrent tasks: one passes, then the other fails and rolls the whole workspace back; the first is recorded as completed and a resume skips it (`main.py:182`) |

The other rows of the reproductions, refuted by TLC in the same way:

| configuration | property | what happens |
|---|---|---|
| TaskRunRepro | `RegressionRestoresPreFix` | the comment at `loop.py:1465` promises "the pre-fix state"; the rollback goes to the snapshot taken before the implementer, so the implementation and all earlier repairs are gone too |
| | `RegressionIsRetried` | the only findings are of a soft validator: the repair raises them, is reverted as a regression, and the task still passes, with the rows of the reverted repair |
| | `StopsAtFirstFailure` | a batch of several chunks starts the later ones after a failure in the first |
| | `PassedIsRecorded` | without continue_on_failure the results after the first failed one in a batch are never recorded |
| TaskPlan | `SkippedAlwaysDone` | an autonomous retry has another strategy, so another key and a new plan, and skips the tasks whose ids the old plan completed; and after a repair, which is not cached, a resume goes by the unrepaired plan |
| | `ResumesInPlace` | `autodev --resume` always starts in a new directory (`main.py:67-76`), where there is no checkpoint ("Resume from .autodev/checkpoint.json and skip already completed tasks", `main.py:182`; README.md:401-403) |
| | `NeverUnbound` | a cached plan with a pattern that matches nothing: `_planner_system` is unbound (`loop.py:718`) |
| | `NeverStuck` | a cyclic or unrepaired plan stays in the cache and is taken by every later run with its key |
| | `TestsSurvive` | the acceptance tests of completed tasks are generated again over what the tasks made of them |
| | `NotSlowerThanSlices` | load balancing is to beat slicing (`task_scheduler.py:175`); a slot of many short tasks is transposed into many chunks and each waits for its longest member |
| ProcessManager (two processes, one run id) | `StopEnds` | after a restart `stop` leaves a running process alone, although its pid is known (docs/BACKLOG_SHOWOFF.md:203) |
| | `ChildrenTracked` | the server dies between Popen and the write of the table |
| ProcessManager | `OneChildPerRequest` | the server dies between Popen and the write, and the same retry, sent again, starts a second child (`gui_process_manager.py:75`) |
| IncidentSend | `DryRunsReachNobody` | the log target logs the whole packet whatever `dry_run` says (`autonomous_incident_send.py:434-446`), while stdout and the webhook keep it back |
| AutonomousSessionRepro | `BudgetBoundsSession` | each resumed process starts its clock at zero, so the "hard wall-clock budget" (docs/AUTONOMOUS_MODE.md:45, 248) is per process |
| | `EndIsTerminal` | a process that died in the last iteration is resumed, never enters the loop, and the session ends as `running`, which is not among the terminal conditions (docs/AUTONOMOUS_MODE.md:292-294) |
| | `NoIterationRunTwice` | with torn writes a state file cut short is replaced by the last report, or by nothing |
| | `NoIndexLost` | the iteration of a process that died in its workflow is never recorded |
| | `NoIncidentWhenCompleted` | resuming a session completed in its last iteration reports failure and emits an incident |
| | `GuardSparesSuccess` | a resume without a gate policy: the guard judges by old gate results and vetoes a success |
| Workspace | `FailedListUndone` | a text that cannot be encoded truncates its file before the writer notices, and the undo leaves that file out (`workspace.py:134-135`: "fail early and keep behavior atomic") |
| | `BackupsSound` | `a/b` and `a__b` share one backup, and a rollback gives one the other's text |
| | `StubsAreFiles` | a file that is missing in two prompts is shown the second time as an unchanged file |
| | `SeedsFirst` | eleven words of the goal in the name of one file outrank the files the task declares (`context_engine.py`: "Phase 1: seed files get highest priority") |
| Validation | `PassRowsCurrent` | a task passes on a row older than the last repair |
| | `CompletedAlwaysSound` | the repair of a performance regression breaks another validator, and only the performance rows are taken anew (`loop.py:2360-2465`) |
| | `SkipsAreHarmless` | with skip_on_soft_fail a hard validator behind a failing soft one never runs, and the task passes |
| | `MergeIsWhole` | of two changes of one path in one answer the merge keeps one |
| | `FailureAlwaysFelt` | a run without continue_on_failure stops at its first failed task before anything is recorded (`loop.py:2266-2280`), so the next gate still goes by the passes before it and skips the validator that failed |
| | `StampIsTrue` | the stamp stays when pip fails or the environment is made anew |
| | `TestsSeeRequirements` | requirements a task changes are not installed in that run |
| | `EnabledCanRun` | the kernel always rejects the command of `sbom` |
| GuiServer | `IntegrityAlways` | a snapshot saved without markdown gets one when loaded and is called altered |
| | `OneRunPerDirectory` | resume accepts a run whose process is at work |
| | `WorkflowWritable` | a torn workflow file is refused with 422 for ever |
| | `RetriedOnce` | two retries of a delivery send its failed targets twice |
| | `RefusedIsUndone` | a deletion that fails at the markdown is refused with 422 after the snapshot is gone (`gui_mvp_server.py:3273-3284`) |
| | `KeepNoneKeepsNone` | a limit of 0 given as a number equals False and is taken for no limit: alone it is refused, beside another it is ignored (`gui_mvp_server.py:3928-3929`) |
| | `AlwaysAnswered` | an error no handler catches leaves the client without an answer |
| | `StoppedIsTrue` | a stop is answered and audited as done while the process runs on |
| | `DeletedStays` | an edit writes back a snapshot that was deleted meanwhile |
| Records (torn files) | `LegacyPolicyUsed` | a profile with only a legacy `validator_policy` gets the default quality profile first (README.md:737; `config.py` 163-166) |
| | `ConfigCatchesAll` | limits, stop guard and incident policy are not checked by `load_config` (README.md:738: "invalid entries fail fast") |
| | `TrustFollowsSession` | a start refused in preflight writes a report and leaves the older trust packet |
| Records (three starts, fresh ones too) | `SummaryAlways` | a resume refused in preflight reports its session and leaves the guard file of an older one |

Facts met while modelling that are not stated as properties:

- Workspace: a hunk `@@ -k,0` is applied one line early; a removed line that
  starts with `--`, or an added one with `++`, is dropped by the parser.
- Validation: `pip_audit` is soft in name only, its row blocks; a missing module
  and a timeout are both taken for a missing tool; signatures depend on the
  order of rows; failures of a run that stops early never reach the gate's
  history, and those of the final validation neither.
- GUI: the snapshot handlers take no role; refused trust requests are not
  audited while refused run controls are; the upgrade of a legacy snapshot
  accepts whatever content it finds; retention does not spare pinned snapshots.
- Records: a threshold of NaN passes the range checks and fails every attempt;
  routing goes by the first code, not the worst; perf observations that failed
  become the norm of later ones; a fresh start without gate policy leaves the
  old gate results; one person under two roles satisfies both approvals; one
  invalid line in the approvals file hides all of them.

## 5. Bounds and fairness

The bounds are the smallest at which the interesting cases meet. Three tasks
give a chain whose middle fails and whose end is skipped, and a batch of two
with a dependent behind it. Two runs give a crash and a resume of it; a third
run adds nothing to a checkpoint that only grows. Two validators, one heavier
than the other, give a repair that fixes one and breaks the other, which is
what a regression is; two findings give a repair that improves without passing.
Repair limits of two and three are reached separately and together. Three
processes give a retry of a retry beside the original; one restart separates
entries with a handle from entries without, and a second one changes nothing
about an entry that has none. Three iterations and three starts give a session
that is resumed after a resume, with guard limits reached before, at and after
the restart. Two calls and a budget below two answers give the overshoot;
three endpoints and four posts let a chat reach the end of the chain and stay
there. Two attempts give a send before a send, and ticks of half a second put
one at, inside and behind the end of each window; the global limit of two and
the target limit of one are both met inside one attempt and across two.
Four runs of one profile let the gate skip, lose its passes and run again, with
windows of two; three attempts per strategy are what a rotation and its return
take. A scene of the GUI has the requests that meet on the same files, and the
smallest have all orders of a read, a write and a deletion of one file. Three runs with two keys
let a plan come after another one that completed tasks, and two with one key
let a cached plan be resumed, refused or in need of repair. One
death at every point of every operation is enough for Workspace and GuiServer,
since what survives a death is the disk, and a second death starts from a disk
the first could have left. Three prompts let a stub follow a stub of another
task's file.
Unbounded in the code and bounded here: `MaxRuns`, `MaxStarts`, `MaxRestarts`,
`MaxFindings`, `MaxUsage`, `MaxTime`, `MaxSends`, `MaxDeaths`, `MaxFaults`,
`MaxPrompts`, `MaxActs`, `MaxHours`, and the number of runs in a profile.

The processes of IncidentSend are interchangeable and its run checks safety
only, so it uses their symmetry. No other run uses a symmetry reduction:
liveness is checked in the same instances.

Fairness is weak and on the program's own steps only. TaskRun: the scheduler
and the coroutines, because every model call ends within the client's timeouts
and retries (that is `LLMClient.CallEnds`) and asyncio runs what is ready.
LLMClient: every call, because httpx's timeout ends a post and `asyncio.sleep`
a backoff. ProcessManager: the rest of a spawn and the waits of `stop`, which
have timeouts; no child has to end. AutonomousSession: the steps of the
process, whose workflow ends because runs do. GuiServer: each thread's steps,
because every post and file operation returns or raises. Crashes, restarts,
resumes and requests are never fair.

`CHECK_DEADLOCK FALSE` is given where the system may stop: a call is over, a
session has used its starts and has nobody to resume it, every process id of
the table is taken, a run is down and its resumes are used up, no attempt is
left to make, a scene's requests are answered, the runs of a profile are over,
the prompts are used up. TaskRunChain,
the small TaskRun runs and TaskPlan check for deadlock, with a stuttering step
in the final states only.

## 6. Proofs

TLAPS proves the following for every value of the constants, from the
assumptions named in the modules and nothing else.

**TaskRunProofs.** From `StructureAssumption`, `ScheduleAssumption` and
`LimitAssumption`: type correctness, and the bounds and orders listed under
"theorems" in `PROJECT.json`. The inductive invariants add to a property what
the code keeps in locals: which tasks are in the current batch and in which
part of it, that a task that runs has its dependencies completed, and how a
repair counter relates to the place a coroutine is at.

`AcceptedKept` says that what a completed task validated stays in the files no
other task declares. It needs two hypotheses, and each has a reason in the
code. `Sequential` (max_parallel_tasks is 1, or no batch has two tasks): a
concurrent sibling's rollback takes the work along, which is TaskRunLostWork.
No soft validator: an attempt that passes on its hard validators may worsen a
soft one, and is then reverted *and* accepted (`RegressionIsRetried`). Without
soft validators a passing attempt has no findings, so its penalty, a sum, is
zero (`PenaltyBounds`; that the sum is defined at all and bounded is shown by
least counterexamples over sizes of sets, where an induction scheme cannot be
cited). `WorkInv` adds the snapshot of the task under way: it, too, holds what
earlier tasks validated, since a rollback writes it back.

**TaskPlanProofs.** The order and the schedule. `SortInv`: what is sorted or
queued is there once and behind all it needs, and a task whose needs are sorted
is sorted or queued; a result as long as the plan is therefore all of it, and a
shorter one shows a cycle (`CyclesRefused`). `LevelInv` and `BatchInv` carry
that over to levels and batches: `BatchesSound` is TaskRun's
`ScheduleAssumption` for every plan, so the theorems of TaskRun rest on no
assumption about schedules that the planner does not establish.
`BatchesApart`: concurrent tasks declare disjoint files, for any plan. The
invariant is about the batches under construction as well; first fit preserves
it because a task is compared with *all* members of a batch; and the plan
changes only before the sort, when there is no batch.

The runs of one workspace, from `SceneAssumption`, for any plans, templates,
patterns and any number of runs: `SkippedDone` and `WorkKept`. The invariant of
the first says that with one key the cache holds one plan, that every completed
id of the checkpoint was completed under that plan, and that a run which makes
a plan had none in the cache, hence no completed id either (`MakePlanKeeps`):
this is where a second key, or a repaired plan, breaks it. The second goes by
cases over what writes files; `SceneAssumption` is needed to know that
acceptance tests are among the files it excepts.

**GuiProofs: the process table.** Type correctness, the retry chain, one child
per retry request (but for a child whose server died before it wrote the
entry), the truth of "ended" and its finality (`IInv`). `Remembered` ties a
child to its entry: it is in the table under the request it was started for,
is being registered, or is orphaned. The strengthening
says the same of the *file* as of the table, because a restart replaces one by
the other, and what a spawn that is not registered yet will become.

**GuiProofs: the server.** From `SceneAssumption` (a request has its id to
itself), `SnapshotAssumption` (what the first files and the bodies of requests
look like) and `DeliveryAssumption` (a send is not a retry and goes to known
targets), for any number of threads, requests, targets, snapshots and deaths:
`IntegrityTrue`, `RetentionKeepsNewest`, `DeliveryRowsTrue` and
`AnswersAreTrue`. None is inductive, because a handler acts later on what it
has read earlier; `ServerInv` says what each thread still has in hand.

- `Base`: what the record of a thread may be at each place of a handler, that a
  request is served by one thread and not answered yet, and that requests in
  service at the same time are not `alone` and, of one group, are marked as
  overlapping (`mixed`).
- `Answers1`: an answer is decided in one step and given in another. A request
  that will be refused has changed nothing so far unless it stopped halfway,
  at a full disk or a markdown (`Honest`): a bulk change that changed anything
  has counted a hit or is about to, a single edit is refused before it touches a
  file, and a deletion either so or when it fails at the markdown (`Deleting`).
- `Snapshots1`: between reading a snapshot and writing it back a thread holds
  a record whose mark is that of the *file's* origin, whatever others did to
  the file meanwhile, and a new name is held by one thread (`Held`). Opening a
  file for writing tears it, and what is torn is not readable, so that the mark
  of a readable file is always that of its origin.
- `Delivery1`: what a target has received is either in a row or at hand, in the
  one step between handing over and appending (`Accounted`); the outcomes a
  thread has collected are the rows of its delivery so far; what a retry still
  has to send to is a target that had failed; as long as deliveries do not
  overlap, the rows a thread has read are all rows, so that attempts are
  counted without a gap (`Attempts`).
- `Retention1`: of what a retention has seen, a snapshot that is gone was to
  go, and one that is to go and is there is still in its list or reported as
  failed.

The rest are facts about the operators: an arrangement of a finite set in a
strict order exists and its i-th element has i - 1 elements ahead of it
(`SortedFacts`, by least counterexamples), hence "beyond the first `keep`" is
"has `keep` younger ones" (`MatchedFacts`); counting rows when one is appended
(`NextAttempt`, `RepeatsMore`).

**AutonomousSessionProofs.** Type correctness, `SuccessEarned`,
`EvidenceIsKept` and, where no write is torn (`~ TornWrites`; the reproduction
shows it false otherwise), `RunsOnce`. Every state in memory or on disk is
`Sound`: its attempts are in the order of their iterations, none beyond the
current one. To normalise a sound state changes nothing (`SoundIsNormal`, which
shows that the sort in the normalisation has only one possible result), so a
resume goes on where the file says the last process was. `GuardHolding` follows
a process from its failed gates to its next attempt: the stop guard sits on that
path, except before the first attempt of a process (`here = 0`), which a resume
always buys.

The module extends Records, so the session with its configuration, files and
reviewers is there too. `SessionImplemented`: each step of Records is a step of
AutonomousSession or leaves its variables alone. The constant `GatePolicies`
must hold both values of BOOLEAN, because a configuration may bring gates or
not. The theorems about the session are thereby true of Records, and
`ThirdTryRefused` uses them: `RecInv` says that wherever the attempts are (in
memory, in the state file, in the report) their details are there with them and
in the same order, so that whichever file a resume recovers them from, the last
two strategies are the ones tried last. A strategy that failed twice without
getting better is at the end of both lists, and the choice rotates away from it.
`TrustEarned` rests on it too. `TrustInv` says that after the gates' verdict on
an attempt the gate file is to be written or tells all attempts, and that a
trust packet is due only right behind the report of a session that is over,
with nothing before it in the queue. A packet that asks for nobody is one whose
risk is low (`TrustMeans`), so the gate file has no failed attempt; every gated
attempt is in that file (`PickedAll`, where the selection keeps each element it
selects), and its codes are the reasons in the state file (`Agrees`).
`ConfigAssumption` says that no configuration is mistaken for none, and that a
configuration is one a file can spell (`ConfigFile`): a map has its keys, what is
read as a number is a scalar, and a text is no number.
`SummaryHolds` says what the report of a process that ran an attempt is worth.
`FilesInv`: after the gates' verdict on an attempt, the gate file and the
strategy file are to be written or tell all attempts, and from the end of the
loop on the guard file too; the report is written when nothing is left to be.
The rest is counting: the summary counts the entries of the selections, the
session its attempts, and the selection is a bijection of places
(`PickedPlaces`), which moves each count (`CountMoved`, `GatesCounted`,
`GuardsCounted`).
`PolicySame` compares the two parsers. What `load_config` coerces it writes back,
and a coercion of its own result changes nothing, whichever of the two makes it
(`IntTwice`, `FloatTwice`); so the ranges the loader checked are those of the
value autonomous start reads, NaN included, which both let pass.

**LLMClientProofs.** Type correctness; `BudgetCapped`: with any number of calls
the total is at most the budget plus one answer for every refused call, because
an answer that passes the budget refuses its own call (the budget test is a
comparison with the running total, so `BudgetCaps` is inductive by itself);
`ChatsCounted`: the cardinality of the set of open chats moves with every
counter; `ChainFollowed`: if no endpoint is listed twice, an exhausted chat has
posted to every endpoint its retries reach. Its invariant (`Walks`, `Passed`,
`Counting`) ties the endpoint of a chat to its number of retries, and
`FallbackMoves` is where distinctness is needed: with a repeated endpoint
`list.index` finds the first copy.

**IncidentSendProofs.** `RowsTrue` and `HistoryIsAudited` for any number of
overlapping processes, targets, limits and deaths; `DedupeHolding` and
`RateHolding` where the dedupe and the rate window are on (`DedupeWindow # 0`,
`RateWindow # 0`; with zero the code applies none). `JobInv` ties the rows of a process to the
log of what targets received: the copies of the target it is at are bounded by
its posts, later targets have none, and no other process has its attempt.
`AuditInv` and `HistoryInv` say that an attempt on disk, or in the copy a
process is about to extend, is over, whole and audited. `DedupeInv` is about
the runs without overlap: the history then holds every attempt that sent
something, so a search that found no hit had none to find; the half second of
tolerance comes from the stamps, which are whole seconds (`StampBounds`).
`RateInv` compares two sums: what the targets received, over the attempts of
the window, and what the counters of the code add up from the history. They are
compared attempt by attempt, since every attempt that sent something is in the
history with the rows of what it sent, and each target of an attempt is granted
only while the counters, with the grants before it, are under the limit.

**WorkspaceProofs.** From `WorkspaceAssumption` (finitely many paths, lists of
changes of finite length): type correctness, `SnapshotsAreSound`,
`WorkspaceIsAtomic`, `ContextIsWorkspace` and `PromptsTrue`. `SnapInv`: while a
snapshot is copied, every file is still to be copied or has its backup.
`AtomInv`: while a list is applied or undone, or a snapshot restored, every
path has what the steps done so far leave on it, and what is left to do will
give it the text of the atomic step's result. The refinement goes through the
invariant (`StepImplements`): one file operation is a stutter, the last of a
list is the atomic step. `RecallInv`: what the cache of a task recorded for a
path is what the prompt that showed it said.

**ValidationProofs.** From `ProfileAssumption` and `ListsAssumption`, for every
profile, tool and history:

- `RequirementsInstalled` (`EnvInv`): a stamp that differs from what is
  installed has outlived a pip or an environment, which `cut` remembers;
- `CompletedSound` (`FinalInv`): the final rows are of the workspace as it is,
  and every enabled validator has one (`AllRun`), so skipping and softening
  before cannot matter;
- `FixersWorkApart` (`FixInv`): the ranks that go together exist because each
  is decided by those before it (`SomeTogether`), and the merge takes a path
  from the lowest rank that has it;
- `SkipsBounded` (`SkipInv`) and `FailuresFelt` (`FeltInv`): a validator the
  gate skips or softens is `Steady` (`GateIsSteady`), so the last results of it
  in the window are passes. A skip adds a recorded run without a result of it,
  hence at most window - threshold + 1 in a row; and a failure that is in the
  baseline behind every pass (`Felt`) rules steadiness out.

- `PassesEarned` (`PassInv`): a passed task hides no failure. The order first:
  Kahn's queue and result hold each validator once and after all it needs
  (`KahnInv`), so a result as long as the run set is all of it, and on a cycle
  the run set itself is the order (`OrderIsWhole`). Then the rows: each is
  decided by those before it (`MadeInOrder`), so of the hard validators without
  a passed row the first was skipped behind an earlier one; that one is hard too
  (soft failures skip nothing where `skip_on_soft_fail` is off), has failed,
  and would have blocked (`NothingHidden`). After a
  repair the rows kept are of what had passed, or everything runs again
  (`MergedTold`). The recursive functions of the model are shown to exist, and
  to have their values, by a least counterexample (`Iterated`, `Preserved`).

What came out of the attempts:

- the model took the line of the delivery log from the rows of the delivery;
  the code repeats the outcomes its own loop has collected, and so does the
  model now (`outcomes`), which makes their agreement a property to prove;
- the sort of a retention and the targets of a retry were compositions of
  recursive library functions, of which little can be proved; they are choices
  of the one arrangement in an order now (`InOrder`), evaluated the same;
- a step that changes two fields of one entry is written with one EXCEPT per
  level: tlapm 1.4.5 mistranslates two updates with a common prefix in one
  EXCEPT, and no proof here rests on such an expression;
- a run could begin with the tasks of one that had stopped early still in
  memory, which no code does: `RunBegins` requires that they are gone;
- `FailureIsFelt` was false as first stated: a run that stops at its first
  failed task returns before the baseline is recorded, so the failure is felt by
  no gate. The property is restricted to runs that go on, and
  `FailureAlwaysFelt` states what does not hold;
- `PassIsEarned` needs run sets without repetitions: with one, a cycle in the
  graph and a validator listed twice, a result could be as long as the list and
  lack a name. The code makes the lists distinct (`_ordered_unique`, and
  `dict.fromkeys` over what is enabled); the model did not, for a task's focus;
- after a repair, the skip check of the model let an older passed row stand
  where the loop of the code puts the fresh one; `NextRow` takes the fresh one;
- `SummaryTrue` was false as first stated, of every report: it held only because
  the run has two starts. A session stopped by its guard, a fresh one that dies
  in its first attempt, and a resume of that one which the preflight refuses:
  its report is of the second session, the guard file of the first. The property
  is now about the reports of processes that ran an attempt, and `SummaryAlways`
  states what does not hold.

Only model-checked:

- liveness (`RunEnds`, `CallEnds`, `StartEnds`, and `RequestsEnd`, which no
  run lists): it needs ENABLED, which is out of the prover's reach;
- of the properties that hold and that no run lists (section 4),
  `GuardSparesSuccess`, `EscalationTrue`, `ChunksSound`, `ListingWhole`,
  `WorkflowFollowsActions` and `OverdueIsEscalated`.

## 7. What the models leave out

TaskRun: multi-strategy; the generation is in Generation and the final
validation one step with a free verdict, since Validation is about it; a
resume uses the same plan, which Generation shows to be so with one key only.
Generation: what the answers say beyond the plan's names, types, dependencies
and files; the migration beside the database models; the first write of
`plan.json` and other records nobody reads back. TaskPlan: the learning of
durations. LLMClient: prompts,
temperatures, what an answer says. AutonomousSession: what Records adds.
ProcessManager: rendering and filtering of answers. IncidentSend: formats,
texts, signatures, the length of a backoff; a process reads the packet and the
history in one step, and appends the audit lines of an attempt in one.
Workspace: permissions, links and encodings beyond "cannot be read or written",
the directories and suffixes that the listing of existing files leaves out;
operations do not overlap, because they are plain calls of one event loop.
TaskContext: scores and symbols of texts are relations; the index is built once.
Validation: tasks run one at a time without snapshots (TaskRun has both), and
outputs are the marks the code looks for. GuiServer: read-only pages, bodies
beyond what a handler tells apart; files are written in one step or torn; where
a resend gets its mode and limit, and how an import checks its body.
Records: times in hours, scores in per cent, texts, the coercion of the three
repair limits that `load_config` does not check; sending the incident, which
is IncidentSend. AutonomousSession ends with its report, although the trust
packet is written after it: Records shows what a death in between leaves.
