------------------------------ MODULE TaskRun ------------------------------
(***************************************************************************)
(* The implementation phase of autodev/loop.py: the level and batch        *)
(* scheduler, the implement/review/validate/fix loop of one task           *)
(* (_run_task_execution), the whole-workspace snapshots of workspace.py,   *)
(* and the checkpoint a later `--resume` starts from.                      *)
(*                                                                         *)
(* The tasks of a chunk are coroutines of one event loop: they interleave  *)
(* only where one awaits an answer of the language model.  Everything      *)
(* between two awaits (apply the changes, run the validators, decide, roll *)
(* back) is one action here.  What an answer contains and what a validator *)
(* finds are nondeterministic.                                             *)
(*                                                                         *)
(* A definition whose name extends that of the one after it (UnmetOnly...  *)
(* before Unmet) is that definition with a plausible bug; nothing uses it  *)
(* but the mutation runs.                                                  *)
(***************************************************************************)
EXTENDS Integers, Sequences, FiniteSets, FiniteSetsExt

CONSTANTS
  Tasks,              \* the task ids of the plan
  Files,              \* the source files of the workspace
  Declared,           \* Declared[t]: the files task t declares and edits
  DependsOn,          \* DependsOn[t]: the tasks t depends on
  Batches,            \* the batches, level by level, each a set of tasks
  Order,              \* Order[t]: the position of t in the topological order
  GlobalTasks,        \* tasks whose run set has a FULL_REPO_VALIDATORS member
  MaxParallel,        \* max_parallel_tasks
  Validators,         \* the validators of the run set
  Soft,               \* those that are soft-fail
  Blocking,           \* those in HARD_BLOCKER_VALIDATORS
  Weight,             \* Weight[v]: score points one finding of v costs
  Tolerance,          \* tolerance of make_decision, in score points
  MaxFindings,        \* bound on the findings a validator reports
  MaxFixPerTask,      \* max_fix_loops_per_task
  MaxFixTotal,        \* max_fix_loops_total
  FailFast,           \* CONSECUTIVE_FAILURE_FAIL_FAST_THRESHOLD
  TimeBudget,         \* is max_fix_time_per_task_sec configured?
  Reviewer,           \* is the reviewer role configured?
  ContinueOnFailure,  \* continue_on_failure
  MaxRuns,            \* bound on the runs (the first one and its resumes)
  None                \* "no value"

ASSUME StructureAssumption ==
  /\ IsFiniteSet(Tasks) /\ IsFiniteSet(Validators)
  /\ Declared \in [Tasks -> SUBSET Files]
  /\ DependsOn \in [Tasks -> SUBSET Tasks]
  /\ Batches \in Seq(SUBSET Tasks)
  /\ Order \in [Tasks -> Nat]
  /\ GlobalTasks \subseteq Tasks
  /\ Soft \subseteq Validators
  /\ Blocking \subseteq Validators
  /\ Weight \in [Validators -> Nat]

(* What _toposort_levels and _partition_level_for_parallel guarantee (they *)
(* are modelled in TaskPlan): the batches hold every task exactly once,    *)
(* and a task only after the tasks it depends on.                          *)
ASSUME ScheduleAssumption ==
  /\ \A t \in Tasks : \E i \in DOMAIN Batches : t \in Batches[i]
  /\ \A i, j \in DOMAIN Batches : i # j => Batches[i] \cap Batches[j] = {}
  /\ \A i \in DOMAIN Batches : \A t \in Batches[i] : \A d \in DependsOn[t] :
       \E j \in DOMAIN Batches : j < i /\ d \in Batches[j]

ASSUME LimitAssumption ==
  /\ MaxParallel \in Nat \ {0}
  /\ Tolerance \in Nat
  /\ MaxFindings \in Nat
  /\ MaxFixPerTask \in Nat
  /\ MaxFixTotal \in Nat
  /\ FailFast \in Nat
  /\ MaxRuns \in Nat \ {0}
  /\ TimeBudget \in BOOLEAN
  /\ Reviewer \in BOOLEAN
  /\ ContinueOnFailure \in BOOLEAN

VARIABLES
  phase,       \* what the scheduler of this run is doing
  run,         \* how many runs were started (bounds the model)
  batch,       \* index of the batch being executed
  pending,     \* runnable tasks of the batch not yet dispatched
  ran,         \* tasks of the batch whose result is not yet recorded
  chunk,       \* the tasks gathered concurrently
  completed, failed, skipped,   \* completed_task_ids and its two siblings
  checkpoint,  \* .autodev/checkpoint.json
  ws,          \* ws[f]: the content of file f
  snap,        \* snap[t]: snapshot pre_task_t, None when there is none
  pc,          \* pc[t]: where the coroutine of task t is
  rows,        \* rows[t]: the last validation rows, None before the first
  loops,       \* loops[t]: repairs requested for t
  total,       \* total_fix_loops
  (* history, read by the properties only *)
  base,        \* base[t]: the workspace when t was last started
  accepted,    \* accepted[t]: the workspace t's passing attempt validated
  fixes        \* fixer calls issued in this run

sched   == <<phase, run, batch, pending, ran, chunk>>
outcome == <<completed, failed, skipped, checkpoint>>
task    == <<snap, pc, rows, loops>>
history == <<base, accepted, fixes>>
vars    == <<sched, outcome, ws, task, total, history>>

----------------------------------------------------------------------------
(* A file holds the template's text or what the n-th changeset of a task   *)
(* wrote in some run.                                                      *)
Content   == {None} \cup (Tasks \X Nat \X Nat)
Workspace == [Files -> Content]
Findings  == [Validators -> 0..MaxFindings]

Phases   == {"batch", "chunk", "record", "completed", "failed", "down"}
Statuses == {"running", "running_with_failures", "completed", "failed"}
Awaiting == {"implement", "review", "fix"}
PC       == {"idle", "queued", "passed", "failed"} \cup Awaiting

Ended(t)  == pc[t] \in {"passed", "failed"}
Active(t) == pc[t] \in Awaiting

(* _dynamic_concurrency only ever lowers the width, and a batch with one   *)
(* runnable task or a full-repository validator is run one at a time.      *)
Width == IF ran \cap GlobalTasks # {} THEN 1 ELSE MaxParallel

CheckpointOnlyRunning(st, done, bad, skip) ==
  [status |-> st, completed |-> IF st = "running" THEN done ELSE {},
   failed |-> bad, skipped |-> skip]

Checkpoint(st, done, bad, skip) ==
  [status |-> st, completed |-> done, failed |-> bad, skipped |-> skip]

Init ==
  /\ phase = "batch" /\ run = 1 /\ batch = 1
  /\ pending = {} /\ ran = {} /\ chunk = {}
  /\ completed = {} /\ failed = {} /\ skipped = {}
  /\ checkpoint = Checkpoint("running", {}, {}, {})
  /\ ws = [f \in Files |-> None]
  /\ snap = [t \in Tasks |-> None]
  /\ pc = [t \in Tasks |-> "idle"]
  /\ rows = [t \in Tasks |-> None]
  /\ loops = [t \in Tasks |-> 0]
  /\ total = 0
  /\ base = [t \in Tasks |-> None]
  /\ accepted = [t \in Tasks |-> None]
  /\ fixes = 0

----------------------------------------------------------------------------
(* The scheduler.                                                          *)

UnmetOnlyFailed(t) == ContinueOnFailure /\ DependsOn[t] \cap failed # {}

(* Tasks of the batch that a failed or skipped dependency rules out. *)
Unmet(t) == /\ ContinueOnFailure
            /\ DependsOn[t] \cap (failed \cup skipped) # {}

(* Tasks of the batch the checkpoint does not list. *)
Todo == Batches[batch] \ completed

BatchAfterStuck(runnable) == batch

(* A batch with nothing to run is passed over. *)
BatchAfter(runnable) == IF runnable = {} THEN batch + 1 ELSE batch

(* A batch is opened: checkpointed tasks are skipped, tasks with an unmet  *)
(* dependency are marked skipped, the rest is runnable.                    *)
OpenBatch ==
  /\ phase = "batch" /\ batch \in DOMAIN Batches
  /\ LET runnable == {t \in Todo : ~Unmet(t)}
     IN  /\ skipped' = skipped \cup (Todo \ runnable)
         /\ pending' = runnable
         /\ ran' = runnable
         /\ phase' = IF runnable = {} THEN "batch" ELSE "chunk"
         /\ batch' = BatchAfter(runnable)
  /\ chunk' = {}
  /\ UNCHANGED <<run, completed, failed, checkpoint, ws, task, total, history>>

(* The next chunk is gathered once the one before it has returned. *)
OpenChunk ==
  /\ phase = "chunk" /\ pending # {}
  /\ \A t \in chunk : Ended(t)
  /\ \E c \in SUBSET pending :
       /\ c # {} /\ Cardinality(c) <= Width
       /\ chunk' = c
       /\ pending' = pending \ c
       /\ pc' = [t \in Tasks |-> IF t \in c THEN "queued" ELSE pc[t]]
  /\ UNCHANGED <<phase, run, batch, ran, outcome, ws, snap, rows, loops, total,
                 history>>

BatchReturned ==
  /\ phase = "chunk" /\ pending = {}
  /\ \A t \in chunk : Ended(t)
  /\ phase' = "record" /\ chunk' = {}
  /\ UNCHANGED <<run, batch, pending, ran, outcome, ws, task, total, history>>

(* The results of a batch are recorded in topological order, each with its *)
(* own write of the checkpoint.                                            *)
NextResult(t) == /\ phase = "record" /\ t \in ran
                 /\ \A u \in ran : Order[t] <= Order[u]

RecordPassed(t) ==
  /\ NextResult(t) /\ pc[t] = "passed"
  /\ completed' = completed \cup {t}
  /\ checkpoint' = Checkpoint("running", completed', {}, {})
  /\ ran' = ran \ {t}
  /\ UNCHANGED <<phase, run, batch, pending, chunk, failed, skipped, ws, task,
                 total, history>>

RecordFailed(t) ==
  /\ NextResult(t) /\ pc[t] = "failed"
  /\ failed' = failed \cup {t}
  /\ IF ContinueOnFailure
     THEN /\ checkpoint' = Checkpoint("running_with_failures", completed, failed', skipped)
          /\ ran' = ran \ {t}
          /\ phase' = phase
     ELSE /\ checkpoint' = Checkpoint("failed", completed, {}, {})
          /\ ran' = {}
          /\ phase' = "failed"
  /\ UNCHANGED <<run, batch, pending, chunk, completed, skipped, ws, task, total,
                 history>>

NextBatch ==
  /\ phase = "record" /\ ran = {}
  /\ phase' = "batch" /\ batch' = batch + 1
  /\ UNCHANGED <<run, pending, ran, chunk, outcome, ws, task, total, history>>

(* The run's last status: final validation passed and no task failed. *)
FinalStatus(ok) == IF ok /\ failed = {} THEN "completed" ELSE "failed"

(* The final phase, seen from here: all validators run and the checkpoint  *)
(* gets its last status.                                                   *)
Finish ==
  /\ phase = "batch" /\ batch \notin DOMAIN Batches
  /\ \E ok \in BOOLEAN :
       /\ phase' = FinalStatus(ok)
       /\ checkpoint' = Checkpoint(FinalStatus(ok), completed, failed, skipped)
  /\ UNCHANGED <<run, batch, pending, ran, chunk, completed, failed, skipped, ws,
                 task, total, history>>

----------------------------------------------------------------------------
(* One task.                                                               *)

(* gather starts the coroutines of the chunk in the order the scheduler    *)
(* gave it, which learned durations decide, so any order.  The snapshot of *)
(* the whole workspace is the first thing a coroutine does.                *)
StartTask(t) ==
  /\ phase = "chunk" /\ t \in chunk /\ pc[t] = "queued"
  /\ snap' = [snap EXCEPT ![t] = ws]
  /\ pc' = [pc EXCEPT ![t] = "implement"]
  /\ rows' = [rows EXCEPT ![t] = None]
  /\ loops' = [loops EXCEPT ![t] = 0]
  /\ base' = [base EXCEPT ![t] = ws]
  /\ UNCHANGED <<sched, outcome, ws, total, accepted, fixes>>

(* A changeset of t rewrites some of the files t declares. *)
Applied(t, touched, n) ==
  [f \in Files |-> IF f \in touched THEN <<t, run, n>> ELSE ws[f]]

(* A repair re-runs the validators that failed and keeps the rows of the   *)
(* others.                                                                 *)
Rerun(t) ==
  LET bad == {v \in Validators : rows[t][v] > 0}
  IN  IF rows[t] = None \/ bad = {} THEN Validators ELSE bad

Merged(t, fresh) ==
  [v \in Validators |-> IF v \in Rerun(t) THEN fresh[v] ELSE rows[t][v]]

Penalty(r)     == MapThenSumSet(LAMBDA v : Weight[v] * r[v], Validators)
Passing(r)     == \A v \in Validators \ Soft : r[v] = 0
HardBlocked(r) == \E v \in Blocking \ Soft : r[v] > 0

RegressionSwapped(before, now) ==
  ~HardBlocked(now) /\ before # None /\ Penalty(before) - Penalty(now) > Tolerance

(* make_decision: "reverted" with reason "regression". *)
Regression(before, now) ==
  /\ ~HardBlocked(now)
  /\ before # None
  /\ Penalty(now) - Penalty(before) > Tolerance

(* The three ways a validation attempt ends.  `kept` is the workspace after *)
(* the revert-on-regression step.                                           *)
Pass(t, w, kept) ==
  /\ ws' = kept
  /\ snap' = [snap EXCEPT ![t] = None]
  /\ pc' = [pc EXCEPT ![t] = "passed"]
  /\ accepted' = [accepted EXCEPT ![t] = w]
  /\ UNCHANGED <<loops, total, fixes>>

OverLimitTaskOnly(t) == loops[t] + 1 > MaxFixPerTask

(* Fail-fast comes before the counters move, the limits after. *)
FailsFast(t)  == loops[t] + 1 > FailFast
OverLimit(t)  == loops[t] + 1 > MaxFixPerTask \/ total + 1 > MaxFixTotal

GiveUp(t, before) ==
  /\ IF FailsFast(t)
     THEN UNCHANGED <<loops, total>>
     ELSE /\ OverLimit(t) \/ TimeBudget
          /\ loops' = [loops EXCEPT ![t] = @ + 1]
          /\ total' = total + 1
  /\ ws' = before
  /\ snap' = [snap EXCEPT ![t] = before]
  /\ pc' = [pc EXCEPT ![t] = "failed"]
  /\ UNCHANGED <<accepted, fixes>>

AskFixer(t, kept, before) ==
  /\ ~FailsFast(t) /\ ~OverLimit(t)
  /\ loops' = [loops EXCEPT ![t] = @ + 1]
  /\ total' = total + 1
  /\ fixes' = fixes + 1
  /\ ws' = kept
  /\ snap' = [snap EXCEPT ![t] = before]
  /\ pc' = [pc EXCEPT ![t] = "fix"]
  /\ UNCHANGED accepted

(* Revert-on-regression: roll back to the snapshot, then take it again. *)
Kept(t, w, revert)   == IF revert THEN snap[t] ELSE w

BeforeRetaken(t, w, revert) == Kept(t, w, revert)

Before(t, w, revert) == IF revert THEN Kept(t, w, revert) ELSE snap[t]

(* Validate the workspace w, merge the rows, revert a regression to the    *)
(* snapshot and take the snapshot again, then pass, give up (rolling back  *)
(* to the snapshot) or ask the fixer.                                      *)
Attempt(t, w) ==
  \E fresh \in Findings :
    LET now    == Merged(t, fresh)
        revert == Regression(rows[t], now)
        kept   == Kept(t, w, revert)
        before == Before(t, w, revert)
    IN  /\ \A v \in Validators \ Rerun(t) : fresh[v] = 0
        /\ rows' = [rows EXCEPT ![t] = now]
        /\ IF Passing(now) THEN Pass(t, w, kept)
           ELSE GiveUp(t, before) \/ AskFixer(t, kept, before)
        /\ UNCHANGED <<sched, outcome, base>>

ImplementReturns(t) ==
  /\ phase = "chunk" /\ pc[t] = "implement"
  /\ \E touched \in SUBSET Declared[t] :
       LET w == Applied(t, touched, 1)
       IN  IF Reviewer
           THEN /\ ws' = w
                /\ pc' = [pc EXCEPT ![t] = "review"]
                /\ UNCHANGED <<sched, outcome, snap, rows, loops, total, history>>
           ELSE Attempt(t, w)

ReviewReturns(t) ==
  /\ phase = "chunk" /\ pc[t] = "review"
  /\ Attempt(t, ws)

FixReturns(t) ==
  /\ phase = "chunk" /\ pc[t] = "fix"
  /\ \E touched \in SUBSET Declared[t] : Attempt(t, Applied(t, touched, loops[t] + 1))

TaskStep(t) ==
  \/ StartTask(t)
  \/ ImplementReturns(t)
  \/ ReviewReturns(t)
  \/ FixReturns(t)

----------------------------------------------------------------------------
(* An unanswered or malformed model reply, an inapplicable changeset or a  *)
(* kill ends the run where it stands: nothing rolls the workspace back.    *)
Crash ==
  /\ phase \in {"batch", "chunk", "record"} /\ run < MaxRuns
  /\ phase' = "down"
  /\ pc' = [t \in Tasks |-> "idle"]
  /\ UNCHANGED <<run, batch, pending, ran, chunk, outcome, ws, snap, rows, loops,
                 total, history>>

(* What a resumed run takes from the checkpoint, whatever its status. *)
Restored == checkpoint.completed

(* A new process with --resume: memory starts empty except for the         *)
(* completed tasks of the checkpoint, which is written back at once.       *)
Resume ==
  /\ phase \in {"down", "failed", "completed"} /\ run < MaxRuns
  /\ run' = run + 1
  /\ phase' = "batch" /\ batch' = 1
  /\ pending' = {} /\ ran' = {} /\ chunk' = {}
  /\ completed' = Restored /\ failed' = {} /\ skipped' = {}
  /\ checkpoint' = Checkpoint("running", completed', {}, {})
  /\ pc' = [t \in Tasks |-> "idle"]
  /\ snap' = [t \in Tasks |-> None]
  /\ rows' = [t \in Tasks |-> None]
  /\ loops' = [t \in Tasks |-> 0]
  /\ total' = 0 /\ fixes' = 0
  /\ base' = [t \in Tasks |-> None]
  /\ UNCHANGED <<ws, accepted>>

Over == phase \in {"completed", "failed"}

Stop == Over /\ UNCHANGED vars

SchedulerStep ==
  \/ OpenBatch
  \/ OpenChunk
  \/ BatchReturned
  \/ \E t \in Tasks : RecordPassed(t)
  \/ \E t \in Tasks : RecordFailed(t)
  \/ NextBatch
  \/ Finish

Next ==
  \/ SchedulerStep
  \/ \E t \in Tasks : TaskStep(t)
  \/ Crash
  \/ Resume
  \/ Stop

Spec == Init /\ [][Next]_vars

(* A model call is answered or fails within the client's timeouts, and the *)
(* event loop runs every coroutine whose answer has arrived.  Nobody has   *)
(* to crash a run or to resume it.                                         *)
FairSpec == Spec /\ WF_vars(SchedulerStep)
                 /\ \A t \in Tasks : WF_vars(TaskStep(t))

----------------------------------------------------------------------------
(* Properties.                                                             *)

(* Every variable has its type; a task is never repaired more than FailFast *)
(* times.                                                                   *)
TypeOK ==
  /\ phase \in Phases /\ run \in 1..MaxRuns /\ batch \in 1..(Len(Batches) + 1)
  /\ pending \in SUBSET Tasks /\ ran \in SUBSET Tasks /\ chunk \in SUBSET Tasks
  /\ completed \in SUBSET Tasks /\ failed \in SUBSET Tasks /\ skipped \in SUBSET Tasks
  /\ checkpoint \in [status : Statuses, completed : SUBSET Tasks,
                      failed : SUBSET Tasks, skipped : SUBSET Tasks]
  /\ ws \in Workspace
  /\ snap \in [Tasks -> Workspace \cup {None}]
  /\ pc \in [Tasks -> PC]
  /\ rows \in [Tasks -> Findings \cup {None}]
  /\ loops \in [Tasks -> 0..FailFast]
  /\ total \in Nat
  /\ base \in [Tasks -> Workspace \cup {None}]
  /\ accepted \in [Tasks -> Workspace \cup {None}]
  /\ fixes \in Nat

(* The fixer is never asked more often than max_fix_loops_total allows for *)
(* a run, whatever tasks repair concurrently, and never more often for one *)
(* task than its own two limits allow.                                     *)
FixBudget ==
  /\ fixes <= MaxFixTotal
  /\ \A t \in Tasks : pc[t] = "fix" => loops[t] <= MaxFixPerTask /\ loops[t] <= FailFast

(* Across failures, skips, crashes and resumes, a task runs only when      *)
(* every task it depends on has completed.                                 *)
DependenciesFirst ==
  \A t \in Tasks : Active(t) => DependsOn[t] \subseteq completed

(* A task the checkpoint lists as completed is not run again: neither by   *)
(* this run nor by a resumed one.                                          *)
CompletedIsFinal ==
  \A t \in checkpoint.completed : ~Active(t) /\ pc[t] # "queued"

(* A run whose checkpoint says "completed" has completed every task of the *)
(* plan, some of them perhaps in earlier runs.                             *)
CompletedRunComplete ==
  checkpoint.status = "completed" => checkpoint.completed = Tasks

(* The checkpoint never forgets a completed task, over crashes, failed     *)
(* runs and resumes.                                                       *)
CheckpointGrows == [][checkpoint.completed \subseteq checkpoint'.completed]_vars

Fails(t) == pc[t] # "failed" /\ pc'[t] = "failed"

(* A task that fails leaves the workspace as it was when the task started, *)
(* whatever it repaired, reverted and took a snapshot of in between.       *)
FailedTaskUndone == [][\A t \in Tasks : Fails(t) => ws' = base[t]]_vars

Private(t) == {f \in Declared[t] : \A u \in Tasks \ {t} : f \notin Declared[u]}

(* What the passing attempt of a completed task validated is still in the  *)
(* workspace, in the files no other task declares.                         *)
AcceptedWorkKept ==
  \A t \in completed : \A f \in Private(t) : ws[f] = accepted[t][f]

(* Every run ends: completed, failed, or down after a crash. *)
RunEnds == phase \in {"batch", "chunk", "record"} ~> phase \in {"completed", "failed", "down"}

(* loop.py:1465-1467: a regression rolls back "to the pre-fix state".  The *)
(* pre-fix state is the workspace while the fixer was being asked.         *)
RegressionRestoresPreFix ==
  [][\A t \in Tasks :
       pc[t] = "fix" /\ pc'[t] = "fix" /\ rows'[t] # rows[t]
                    /\ Regression(rows[t], rows'[t]) => ws' = ws]_vars

(* loop.py:1466-1467: a reverted regression has a next iteration, in which *)
(* the fixer tries a different approach; it is not what a task passes on.  *)
RegressionIsRetried ==
  [][\A t \in Tasks :
       pc[t] = "fix" /\ pc'[t] = "passed" => ~Regression(rows[t], rows'[t])]_vars

(* test_loop.py:2672: without continue_on_failure the first failing task   *)
(* ends the run, so no task starts after it.                               *)
StopsAtFirstFailure ==
  [][\A t, u \in Tasks :
       ~ContinueOnFailure /\ pc[u] = "failed" /\ pc[t] = "queued"
         => pc'[t] = "queued"]_vars

(* A run that has ended lists in its checkpoint every task that passed in  *)
(* it, so that --resume skips "already completed tasks" (main.py:182).     *)
PassedIsRecorded ==
  phase \in {"completed", "failed"} =>
    \A t \in Tasks : pc[t] = "passed" => t \in checkpoint.completed
============================================================================
