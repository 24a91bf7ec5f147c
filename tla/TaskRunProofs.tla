--------------------------- MODULE TaskRunProofs ---------------------------
(***************************************************************************)
(* What holds of TaskRun for every plan, every set of limits and every     *)
(* number of runs: its type invariant, the order of the tasks, what the    *)
(* checkpoint says, the repair limits and the rollback of a failed task;   *)
(* and, where one task runs at a time, that later tasks leave the accepted *)
(* work of the earlier ones alone.                                         *)
(***************************************************************************)
EXTENDS TaskRun, FiniteSetTheorems, WellFoundedInduction, TLAPS

Running == phase \in {"batch", "chunk", "record"}

(* A coroutine past its start has the snapshot it took there. *)
SnapshotTaken == \A t \in Tasks : Active(t) => snap[t] \in Workspace /\ snap[t] = base[t]

(* Where the tasks of a batch are while it is executed. *)
Dispatched ==
  /\ phase \in {"chunk", "record"} => /\ batch \in DOMAIN Batches
                                      /\ ran \subseteq Batches[batch] \ completed
  /\ phase = "chunk" => \A t \in ran : ~Unmet(t)
  /\ phase = "batch" => ran = {}
  /\ phase = "record" => pending = {} /\ chunk = {}
  /\ ContinueOnFailure /\ phase \in {"completed", "failed"} => ran = {}
  /\ pending \subseteq ran /\ chunk \subseteq ran
  /\ \A t \in Tasks : Active(t) \/ pc[t] = "queued" => phase = "chunk" /\ t \in chunk

(* Every task of the batches already executed has an outcome. *)
Settled ==
  Running =>
    /\ \A j \in DOMAIN Batches : j < batch => Batches[j] \subseteq completed \cup failed \cup skipped
    /\ phase # "batch" => Batches[batch] \subseteq completed \cup failed \cup skipped \cup ran
    /\ skipped # {} => failed # {}
    /\ ~ContinueOnFailure => failed = {} /\ skipped = {}

(* The checkpoint and the outcome of the tasks agree. *)
Recorded ==
  /\ checkpoint.completed = completed
  /\ checkpoint.status = "completed" => completed = Tasks
  /\ ContinueOnFailure => \A t \in Tasks : pc[t] = "passed" => t \in completed \cup ran

Counted ==
  /\ fixes <= total /\ fixes <= MaxFixTotal
  /\ \A t \in Tasks : pc[t] = "fix" => loops[t] <= MaxFixPerTask

IInv == TypeOK /\ SnapshotTaken /\ Dispatched /\ Settled /\ Recorded /\ Counted

----------------------------------------------------------------------------
(* How one task moves.                                                     *)

(* A changeset turns a workspace into a workspace. *)
LEMMA AppliedType ==
  ASSUME TypeOK, NEW t \in Tasks, NEW touched, NEW n \in Nat
  PROVE  Applied(t, touched, n) \in Workspace
BY DEF Applied, Workspace, Content, TypeOK

(* The merged rows of a repair are findings of the validators. *)
LEMMA MergedType ==
  ASSUME TypeOK, NEW t \in Tasks, NEW fresh \in Findings
  PROVE  Merged(t, fresh) \in Findings
<1>1. CASE rows[t] = None
  BY <1>1 DEF Merged, Rerun, Findings
<1>2. CASE rows[t] # None
  <2>1. rows[t] \in [Validators -> 0..MaxFindings]
    BY <1>2 DEF TypeOK, Findings
  <2>. QED
    BY <2>1 DEF Merged, Findings
<1>. QED
  BY <1>1, <1>2

(* A validation attempt passes the task, fails it with the workspace rolled *)
(* back to the snapshot, or asks the fixer.                                 *)
AttemptOutcome(t) ==
  \/ /\ pc' = [pc EXCEPT ![t] = "passed"]
     /\ snap' = [snap EXCEPT ![t] = None]
     /\ \E w \in Workspace : accepted' = [accepted EXCEPT ![t] = w]
     /\ UNCHANGED <<loops, total, fixes>>
  \/ /\ pc' = [pc EXCEPT ![t] = "failed"]
     /\ ws' = snap[t]
     /\ snap' = [snap EXCEPT ![t] = snap[t]]
     /\ \/ UNCHANGED <<loops, total>>
        \/ /\ loops[t] + 1 <= FailFast
           /\ loops' = [loops EXCEPT ![t] = @ + 1]
           /\ total' = total + 1
     /\ UNCHANGED <<accepted, fixes>>
  \/ /\ pc' = [pc EXCEPT ![t] = "fix"]
     /\ snap' = [snap EXCEPT ![t] = snap[t]]
     /\ loops[t] + 1 <= FailFast
     /\ loops[t] + 1 <= MaxFixPerTask
     /\ total + 1 <= MaxFixTotal
     /\ loops' = [loops EXCEPT ![t] = @ + 1]
     /\ total' = total + 1
     /\ fixes' = fixes + 1
     /\ UNCHANGED accepted

(* What the end of an attempt leaves in the variables of the task. *)
LEMMA AttemptShape ==
  ASSUME TypeOK, SnapshotTaken, NEW t \in Tasks, Active(t),
         NEW w \in Workspace, Attempt(t, w)
  PROVE  /\ AttemptOutcome(t)
         /\ ws' \in Workspace
         /\ \E now \in Findings : rows' = [rows EXCEPT ![t] = now]
         /\ UNCHANGED <<sched, outcome, base>>
<1>. USE LimitAssumption
<1>1. PICK fresh \in Findings :
        LET now    == Merged(t, fresh)
            revert == Regression(rows[t], now)
            kept   == Kept(t, w, revert)
            before == Before(t, w, revert)
        IN  /\ rows' = [rows EXCEPT ![t] = now]
            /\ IF Passing(now) THEN Pass(t, w, kept)
               ELSE GiveUp(t, before) \/ AskFixer(t, kept, before)
            /\ UNCHANGED <<sched, outcome, base>>
  BY DEF Attempt
<1>. DEFINE now    == Merged(t, fresh)
            revert == Regression(rows[t], now)
            kept   == Kept(t, w, revert)
            before == Before(t, w, revert)
<1>2. now \in Findings
  BY MergedType
<1>3. snap[t] \in Workspace
  BY DEF SnapshotTaken
<1>4. kept \in Workspace /\ before = snap[t]
  BY <1>3 DEF Kept, Before
<1>5. loops[t] \in Nat /\ total \in Nat
  BY DEF TypeOK
<1>. HIDE DEF now, kept, before
<1>6. \/ Pass(t, w, kept)
      \/ GiveUp(t, before)
      \/ AskFixer(t, kept, before)
  BY <1>1 DEF now, kept, before
<1>7. CASE Pass(t, w, kept)
  <2>1. AttemptOutcome(t) /\ ws' \in Workspace
    BY <1>4, <1>7 DEF Pass, AttemptOutcome
  <2>. QED
    BY <2>1, <1>1, <1>2 DEF now
<1>8. CASE GiveUp(t, before)
  <2>1. AttemptOutcome(t) /\ ws' \in Workspace
    BY <1>3, <1>4, <1>5, <1>8 DEF GiveUp, AttemptOutcome, FailsFast
  <2>. QED
    BY <2>1, <1>1, <1>2 DEF now
<1>9. CASE AskFixer(t, kept, before)
  <2>1. AttemptOutcome(t) /\ ws' \in Workspace
    BY <1>4, <1>5, <1>9 DEF AskFixer, AttemptOutcome, FailsFast, OverLimit
  <2>. QED
    BY <2>1, <1>1, <1>2 DEF now
<1>. QED
  BY <1>6, <1>7, <1>8, <1>9

(* The three answers a coroutine waits for lead to an attempt; with a      *)
(* reviewer configured the first one leads to the reviewer.                *)
ToReview(t) ==
  /\ pc[t] = "implement"
  /\ pc' = [pc EXCEPT ![t] = "review"]
  /\ ws' \in Workspace
  /\ UNCHANGED <<sched, outcome, snap, rows, loops, total, history>>

Attempted(t) ==
  /\ Active(t) /\ AttemptOutcome(t)
  /\ ws' \in Workspace
  /\ \E now \in Findings : rows' = [rows EXCEPT ![t] = now]
  /\ UNCHANGED <<sched, outcome, base>>

(* What an answer of the model leaves in the variables of the task. *)
LEMMA AnswerShape ==
  ASSUME TypeOK, SnapshotTaken, NEW t \in Tasks,
         ImplementReturns(t) \/ ReviewReturns(t) \/ FixReturns(t)
  PROVE  /\ phase = "chunk"
         /\ ToReview(t) \/ Attempted(t)
<1>1. CASE ImplementReturns(t)
  <2>1. PICK touched \in SUBSET Declared[t] :
          LET w == Applied(t, touched, 1)
          IN  IF Reviewer
              THEN /\ ws' = w
                   /\ pc' = [pc EXCEPT ![t] = "review"]
                   /\ UNCHANGED <<sched, outcome, snap, rows, loops, total, history>>
              ELSE Attempt(t, w)
    BY <1>1 DEF ImplementReturns
  <2>2. Applied(t, touched, 1) \in Workspace
    BY AppliedType
  <2>3. pc[t] = "implement" /\ Active(t) /\ phase = "chunk"
    BY <1>1 DEF ImplementReturns, Active, Awaiting
  <2>4. CASE Reviewer
    BY <2>1, <2>2, <2>3, <2>4 DEF ToReview
  <2>5. CASE ~Reviewer
    <3>1. Attempt(t, Applied(t, touched, 1))
      BY <2>1, <2>5
    <3>. QED
      BY <2>2, <2>3, <3>1, AttemptShape DEF Attempted
  <2>. QED
    BY <2>4, <2>5
<1>2. CASE ReviewReturns(t)
  <2>1. ws \in Workspace /\ Active(t) /\ phase = "chunk" /\ Attempt(t, ws)
    BY <1>2 DEF ReviewReturns, TypeOK, Active, Awaiting
  <2>. QED
    BY <2>1, AttemptShape DEF Attempted
<1>3. CASE FixReturns(t)
  <2>1. PICK touched \in SUBSET Declared[t] : Attempt(t, Applied(t, touched, loops[t] + 1))
    BY <1>3 DEF FixReturns
  <2>2. loops[t] + 1 \in Nat
    BY LimitAssumption DEF TypeOK
  <2>3. Applied(t, touched, loops[t] + 1) \in Workspace
    BY <2>2, AppliedType
  <2>4. Active(t) /\ phase = "chunk"
    BY <1>3 DEF FixReturns, Active, Awaiting
  <2>. QED
    BY <2>1, <2>3, <2>4, AttemptShape DEF Attempted
<1>. QED
  BY <1>1, <1>2, <1>3

----------------------------------------------------------------------------
(* Type correctness and the snapshots.                                     *)

(* The first run starts well typed, with no task under way. *)
LEMMA TypeInit == Init => TypeOK /\ SnapshotTaken
BY LimitAssumption, StructureAssumption
   DEF Init, TypeOK, SnapshotTaken, Phases, Checkpoint, Statuses, Workspace, Content, PC,
       Active, Awaiting

(* Every step keeps the types and the snapshot of a task under way. *)
LEMMA TypeNext ==
  ASSUME TypeOK, SnapshotTaken, phase \in {"chunk", "record"} => batch \in DOMAIN Batches,
         [Next]_vars
  PROVE  TypeOK' /\ SnapshotTaken'
<1>. USE StructureAssumption, LimitAssumption
<1>0. DOMAIN Batches = 1..Len(Batches) /\ Len(Batches) \in Nat
  OBVIOUS
<1>1. CASE OpenBatch
  <2>1. Todo \subseteq Tasks
    BY <1>1 DEF OpenBatch, Todo
  <2>2. /\ skipped' \in SUBSET Tasks /\ pending' \in SUBSET Tasks
        /\ ran' \in SUBSET Tasks /\ chunk' \in SUBSET Tasks
    BY <1>1, <2>1 DEF OpenBatch, TypeOK
  <2>3. phase' \in Phases /\ batch' \in 1..(Len(Batches) + 1)
    BY <1>0, <1>1 DEF OpenBatch, TypeOK, Phases, BatchAfter
  <2>. QED
    BY <1>1, <2>2, <2>3 DEF OpenBatch, TypeOK, SnapshotTaken, Active, task, history
<1>2. CASE OpenChunk
  <2>1. PICK c \in SUBSET pending :
          /\ chunk' = c /\ pending' = pending \ c
          /\ pc' = [t \in Tasks |-> IF t \in c THEN "queued" ELSE pc[t]]
    BY <1>2 DEF OpenChunk
  <2>2. pc' \in [Tasks -> PC] /\ chunk' \in SUBSET Tasks /\ pending' \in SUBSET Tasks
    BY <2>1 DEF TypeOK, PC
  <2>3. \A t \in Tasks : Active(t)' => Active(t)
    BY <2>1 DEF Active, Awaiting, TypeOK
  <2>. QED
    BY <1>2, <2>2, <2>3 DEF OpenChunk, TypeOK, SnapshotTaken, outcome, history
<1>3. CASE BatchReturned
  BY <1>3 DEF BatchReturned, TypeOK, SnapshotTaken, Active, Phases, outcome, task, history
<1>4. ASSUME NEW t \in Tasks, RecordPassed(t) PROVE TypeOK' /\ SnapshotTaken'
  BY <1>4 DEF RecordPassed, NextResult, TypeOK, SnapshotTaken, Active, Checkpoint, Statuses,
              task, history
<1>5. ASSUME NEW t \in Tasks, RecordFailed(t) PROVE TypeOK' /\ SnapshotTaken'
  BY <1>5 DEF RecordFailed, NextResult, TypeOK, SnapshotTaken, Active, Checkpoint, Statuses,
              Phases, task, history
<1>6. CASE NextBatch
  BY <1>0, <1>6 DEF NextBatch, TypeOK, SnapshotTaken, Active, Phases, outcome, task, history
<1>7. CASE Finish
  BY <1>7 DEF Finish, FinalStatus, TypeOK, SnapshotTaken, Active, Checkpoint, Statuses, Phases,
              task, history
<1>8. ASSUME NEW t \in Tasks, StartTask(t) PROVE TypeOK' /\ SnapshotTaken'
  <2>1. TypeOK'
    BY <1>8 DEF StartTask, TypeOK, PC, Awaiting, sched, outcome
  <2>2. SnapshotTaken'
    BY <1>8 DEF StartTask, TypeOK, SnapshotTaken, Active
  <2>. QED
    BY <2>1, <2>2
<1>9. ASSUME NEW t \in Tasks, ToReview(t) PROVE TypeOK' /\ SnapshotTaken'
  <2>1. TypeOK'
    BY <1>9 DEF ToReview, TypeOK, PC, Awaiting, sched, outcome, history
  <2>2. SnapshotTaken'
    BY <1>9 DEF ToReview, TypeOK, SnapshotTaken, Active, Awaiting, history
  <2>. QED
    BY <2>1, <2>2
<1>10. ASSUME NEW t \in Tasks, Attempted(t) PROVE TypeOK' /\ SnapshotTaken'
  <2>1. snap[t] \in Workspace
    BY <1>10 DEF Attempted, SnapshotTaken
  <2>2. pc' \in [Tasks -> PC] /\ snap' \in [Tasks -> Workspace \cup {None}]
    BY <1>10, <2>1 DEF Attempted, AttemptOutcome, TypeOK, PC, Awaiting
  <2>3. loops' \in [Tasks -> 0..FailFast] /\ total' \in Nat /\ fixes' \in Nat
    <3>1. loops \in [Tasks -> 0..FailFast] /\ total \in Nat /\ fixes \in Nat
      BY DEF TypeOK
    <3>2. loops[t] + 1 <= FailFast => loops[t] + 1 \in 0..FailFast
      BY <3>1
    <3>3. \/ UNCHANGED <<loops, total, fixes>>
          \/ /\ loops[t] + 1 <= FailFast
             /\ loops' = [loops EXCEPT ![t] = loops[t] + 1]
             /\ total' = total + 1
             /\ fixes' = fixes \/ fixes' = fixes + 1
      BY <1>10 DEF Attempted, AttemptOutcome
    <3>4. total' \in Nat /\ fixes' \in Nat
      BY <3>1, <3>3
    <3>5. loops' \in [Tasks -> 0..FailFast]
      BY <3>1, <3>2, <3>3
    <3>. QED
      BY <3>4, <3>5
  <2>4. accepted' \in [Tasks -> Workspace \cup {None}]
    <3>1. accepted \in [Tasks -> Workspace \cup {None}]
      BY DEF TypeOK
    <3>. QED
      BY <1>10, <3>1 DEF Attempted, AttemptOutcome
  <2>5. rows' \in [Tasks -> Findings \cup {None}]
    BY <1>10 DEF Attempted, TypeOK
  <2>6. TypeOK'
    BY <1>10, <2>2, <2>3, <2>4, <2>5 DEF Attempted, TypeOK, sched, outcome
  <2>7. SnapshotTaken'
    BY <1>10 DEF Attempted, AttemptOutcome, TypeOK, SnapshotTaken, Active, Awaiting
  <2>. QED
    BY <2>6, <2>7
<1>11. CASE Crash
  BY <1>11 DEF Crash, TypeOK, SnapshotTaken, Active, Awaiting, PC, Phases, outcome, history
<1>12. CASE Resume
  BY <1>12 DEF Resume, Restored, TypeOK, SnapshotTaken, Active, Awaiting, PC, Phases,
               Checkpoint, Statuses
<1>13. CASE UNCHANGED vars
  BY <1>13 DEF vars, sched, outcome, task, history, TypeOK, SnapshotTaken, Active
<1>. QED
  <2>1. ASSUME NEW t \in Tasks, TaskStep(t) PROVE TypeOK' /\ SnapshotTaken'
    BY <2>1, <1>8, <1>9, <1>10, AnswerShape DEF TaskStep
  <2>. QED
    BY <2>1, <1>1, <1>2, <1>3, <1>4, <1>5, <1>6, <1>7, <1>11, <1>12, <1>13
       DEF Next, SchedulerStep, Stop

----------------------------------------------------------------------------
(* The rest of the invariant, conjunct by conjunct.                        *)

(* A step of a task, as the scheduler sees it. *)
LEMMA TaskStepShape ==
  ASSUME TypeOK, SnapshotTaken, Dispatched, NEW t \in Tasks, TaskStep(t)
  PROVE  /\ phase = "chunk" /\ t \in chunk
         /\ UNCHANGED <<sched, outcome>>
         /\ \/ StartTask(t) \/ ToReview(t) \/ Attempted(t)
         /\ \E s \in Awaiting \cup {"passed", "failed"} : pc' = [pc EXCEPT ![t] = s]
<1>1. CASE StartTask(t)
  BY <1>1 DEF StartTask, Awaiting
<1>2. CASE ~StartTask(t)
  <2>1. phase = "chunk" /\ (ToReview(t) \/ Attempted(t))
    BY <1>2, AnswerShape DEF TaskStep
  <2>2. CASE ToReview(t)
    BY <2>1, <2>2 DEF ToReview, Dispatched, Active, Awaiting
  <2>3. CASE Attempted(t)
    BY <2>1, <2>3 DEF Attempted, AttemptOutcome, Dispatched, Awaiting
  <2>. QED
    BY <2>1, <2>2, <2>3
<1>. QED
  BY <1>1, <1>2

(* Only tasks whose dependencies completed are dispatched. *)
LEMMA DispatchedNext ==
  ASSUME TypeOK, SnapshotTaken, Dispatched, Settled, [Next]_vars
  PROVE  Dispatched'
<1>. USE DEF Dispatched, Active, Awaiting
<1>1. CASE OpenBatch
  <2>1. \A t \in Tasks : ~Active(t) /\ pc[t] # "queued"
    BY <1>1 DEF OpenBatch
  <2>2. ran' \subseteq Batches[batch] \ completed /\ pending' = ran' /\ chunk' = {}
    BY <1>1 DEF OpenBatch, Todo
  <2>3. CASE ran' = {}
    BY <1>1, <2>1, <2>2, <2>3 DEF OpenBatch, task
  <2>4. CASE ran' # {}
    <3>1. phase' = "chunk" /\ batch' = batch /\ batch \in DOMAIN Batches
      BY <1>1, <2>4 DEF OpenBatch, BatchAfter
    <3>2. \A t \in ran' : ~Unmet(t)'
      <4>1. SUFFICES ASSUME NEW t \in ran', Unmet(t)' PROVE FALSE
        OBVIOUS
      <4>2. t \in Batches[batch] /\ ~Unmet(t)
        BY <1>1 DEF OpenBatch, Todo
      <4>3. skipped' = skipped \cup (Todo \ ran') /\ failed' = failed
        BY <1>1 DEF OpenBatch
      <4>4. \A d \in DependsOn[t] : d \notin Todo
        <5>1. SUFFICES ASSUME NEW d \in DependsOn[t] PROVE d \notin Batches[batch]
          BY DEF Todo
        <5>2. PICK j \in DOMAIN Batches : j < batch /\ d \in Batches[j]
          BY <3>1, <4>2, ScheduleAssumption
        <5>3. j # batch
          BY <5>2 DEF TypeOK
        <5>. QED
          BY <3>1, <5>2, <5>3, ScheduleAssumption
      <4>. QED
        BY <4>1, <4>2, <4>3, <4>4 DEF Unmet
    <3>. QED
      BY <1>1, <2>1, <2>2, <3>1, <3>2 DEF OpenBatch, task
  <2>. QED
    BY <2>3, <2>4
<1>2. CASE OpenChunk
  <2>1. PICK c \in SUBSET pending :
          /\ chunk' = c /\ pending' = pending \ c
          /\ pc' = [t \in Tasks |-> IF t \in c THEN "queued" ELSE pc[t]]
    BY <1>2 DEF OpenChunk
  <2>2. \A t \in Tasks : ~Active(t) /\ pc[t] # "queued"
    BY <1>2 DEF OpenChunk, Ended
  <2>. QED
    BY <1>2, <2>1, <2>2 DEF OpenChunk, outcome, Unmet
<1>3. CASE BatchReturned
  <2>1. \A t \in Tasks : ~Active(t) /\ pc[t] # "queued"
    BY <1>3 DEF BatchReturned, Ended
  <2>. QED
    BY <1>3, <2>1 DEF BatchReturned, outcome, task
<1>4. ASSUME NEW t \in Tasks, RecordPassed(t) PROVE Dispatched'
  BY <1>4 DEF RecordPassed, NextResult, task
<1>5. ASSUME NEW t \in Tasks, RecordFailed(t) PROVE Dispatched'
  BY <1>5 DEF RecordFailed, NextResult, task
<1>6. CASE NextBatch
  BY <1>6 DEF NextBatch, outcome, task
<1>7. CASE Finish
  BY <1>7 DEF Finish, FinalStatus, task
<1>8. ASSUME NEW t \in Tasks, TaskStep(t) PROVE Dispatched'
  <2>1. PICK s \in Awaiting \cup {"passed", "failed"} : pc' = [pc EXCEPT ![t] = s]
    BY <1>8, TaskStepShape
  <2>2. phase = "chunk" /\ t \in chunk /\ UNCHANGED <<sched, outcome>>
    BY <1>8, TaskStepShape
  <2>. QED
    BY <2>1, <2>2 DEF sched, outcome, Unmet, TypeOK
<1>9. CASE Crash
  BY <1>9 DEF Crash, outcome
<1>10. CASE Resume
  BY <1>10 DEF Resume
<1>11. CASE UNCHANGED vars
  BY <1>11 DEF vars, sched, outcome, task, Unmet
<1>. QED
  BY <1>1, <1>2, <1>3, <1>4, <1>5, <1>6, <1>7, <1>8, <1>9, <1>10, <1>11
     DEF Next, SchedulerStep, Stop

(* The tasks of the batches already passed stay settled. *)
LEMMA SettledNext ==
  ASSUME TypeOK, SnapshotTaken, Dispatched, Settled, [Next]_vars
  PROVE  Settled'
<1>. USE DEF Settled, Running
<1>0. batch \in Int /\ \A j \in DOMAIN Batches : j \in Int /\ ~(j < 1)
  BY StructureAssumption DEF TypeOK
<1>1. CASE OpenBatch
  <2>1. Batches[batch] \subseteq completed \cup skipped' \cup ran'
    BY <1>1 DEF OpenBatch, Todo
  <2>2. skipped' # {} => failed # {}
    BY <1>1 DEF OpenBatch, Todo, Unmet
  <2>3. ~ContinueOnFailure => skipped' = {}
    BY <1>1 DEF OpenBatch, Unmet
  <2>4. skipped \subseteq skipped'
    BY <1>1 DEF OpenBatch
  <2>5. batch' = batch \/ (batch' = batch + 1 /\ ran' = {})
    BY <1>1 DEF OpenBatch, BatchAfter
  <2>6. \A j \in DOMAIN Batches : j < batch' => j < batch \/ (j = batch /\ ran' = {})
    BY <1>0, <2>5
  <2>7. \A j \in DOMAIN Batches :
          j < batch' => Batches[j] \subseteq completed \cup failed \cup skipped'
    BY <1>1, <2>1, <2>4, <2>6 DEF OpenBatch
  <2>8. phase' # "batch" => batch' = batch
    BY <1>1 DEF OpenBatch, BatchAfter
  <2>. QED
    BY <1>1, <2>1, <2>2, <2>3, <2>7, <2>8 DEF OpenBatch
<1>2. CASE OpenChunk
  BY <1>2 DEF OpenChunk, outcome
<1>3. CASE BatchReturned
  BY <1>3 DEF BatchReturned, outcome
<1>4. ASSUME NEW t \in Tasks, RecordPassed(t) PROVE Settled'
  BY <1>4 DEF RecordPassed, NextResult
<1>5. ASSUME NEW t \in Tasks, RecordFailed(t) PROVE Settled'
  BY <1>5 DEF RecordFailed, NextResult
<1>6. CASE NextBatch
  <2>1. \A j \in DOMAIN Batches : j < batch + 1 => j < batch \/ j = batch
    BY <1>0
  <2>. QED
    BY <1>6, <2>1 DEF NextBatch, outcome
<1>7. CASE Finish
  BY <1>7 DEF Finish, FinalStatus
<1>8. ASSUME NEW t \in Tasks, TaskStep(t) PROVE Settled'
  BY <1>8, TaskStepShape DEF sched, outcome
<1>9. CASE Crash
  BY <1>9 DEF Crash
<1>10. CASE Resume
  BY <1>10, <1>0 DEF Resume
<1>11. CASE UNCHANGED vars
  BY <1>11 DEF vars, sched, outcome
<1>. QED
  BY <1>1, <1>2, <1>3, <1>4, <1>5, <1>6, <1>7, <1>8, <1>9, <1>10, <1>11
     DEF Next, SchedulerStep, Stop

(* The checkpoint keeps up with the results. *)
LEMMA RecordedNext ==
  ASSUME TypeOK, SnapshotTaken, Dispatched, Settled, Recorded, [Next]_vars
  PROVE  Recorded'
<1>. USE DEF Recorded, Checkpoint
<1>1. CASE OpenBatch
  BY <1>1 DEF OpenBatch, Dispatched, task
<1>2. CASE OpenChunk
  BY <1>2 DEF OpenChunk, outcome, TypeOK
<1>3. CASE BatchReturned
  BY <1>3 DEF BatchReturned, outcome, task
<1>4. ASSUME NEW t \in Tasks, RecordPassed(t) PROVE Recorded'
  BY <1>4 DEF RecordPassed, task
<1>5. ASSUME NEW t \in Tasks, RecordFailed(t) PROVE Recorded'
  <2>1. checkpoint'.completed = completed' /\ checkpoint'.status # "completed"
    BY <1>5 DEF RecordFailed
  <2>2. ContinueOnFailure => ran' = ran \ {t}
    BY <1>5 DEF RecordFailed
  <2>3. pc'[t] # "passed" /\ pc' = pc /\ completed' = completed
    BY <1>5 DEF RecordFailed, task
  <2>. QED
    BY <2>1, <2>2, <2>3
<1>6. CASE NextBatch
  BY <1>6 DEF NextBatch, outcome, task
<1>7. CASE Finish
  <2>1. \A t \in Tasks : t \in completed \cup failed \cup skipped
    <3>1. SUFFICES ASSUME NEW t \in Tasks PROVE t \in completed \cup failed \cup skipped
      OBVIOUS
    <3>2. PICK i \in DOMAIN Batches : t \in Batches[i]
      BY ScheduleAssumption
    <3>3. batch \in 1..(Len(Batches) + 1) /\ batch \notin 1..Len(Batches) /\ i \in 1..Len(Batches)
      BY <1>7, <3>2, StructureAssumption DEF Finish, TypeOK
    <3>4. i < batch
      BY <3>3, StructureAssumption
    <3>. QED
      BY <1>7, <3>2, <3>4 DEF Finish, Settled, Running
  <2>2. failed = {} => skipped = {}
    BY <1>7 DEF Finish, Settled, Running
  <2>3. checkpoint'.completed = completed'
    BY <1>7 DEF Finish
  <2>4. checkpoint'.status = "completed" => failed = {}
    BY <1>7 DEF Finish, FinalStatus
  <2>5. completed \subseteq Tasks
    BY DEF TypeOK
  <2>6. checkpoint'.status = "completed" => completed' = Tasks
    BY <1>7, <2>1, <2>2, <2>4, <2>5 DEF Finish
  <2>. QED
    BY <1>7, <2>3, <2>6 DEF Finish, task
<1>8. ASSUME NEW t \in Tasks, TaskStep(t) PROVE Recorded'
  <2>1. PICK s \in Awaiting \cup {"passed", "failed"} : pc' = [pc EXCEPT ![t] = s]
    BY <1>8, TaskStepShape
  <2>2. t \in ran /\ UNCHANGED <<sched, outcome>>
    BY <1>8, TaskStepShape DEF Dispatched
  <2>. QED
    BY <2>1, <2>2 DEF sched, outcome, TypeOK
<1>9. CASE Crash
  BY <1>9 DEF Crash, outcome
<1>10. CASE Resume
  BY <1>10 DEF Resume, Restored
<1>11. CASE UNCHANGED vars
  BY <1>11 DEF vars, sched, outcome, task
<1>. QED
  BY <1>1, <1>2, <1>3, <1>4, <1>5, <1>6, <1>7, <1>8, <1>9, <1>10, <1>11
     DEF Next, SchedulerStep, Stop

(* The fixer calls stay within their counters. *)
LEMMA CountedNext ==
  ASSUME TypeOK, SnapshotTaken, Dispatched, Counted, [Next]_vars
  PROVE  Counted'
<1>. USE DEF Counted
<1>1. CASE UNCHANGED <<pc, loops, total, fixes>>
  BY <1>1
<1>2. CASE OpenChunk
  BY <1>2 DEF OpenChunk, history, TypeOK
<1>3. ASSUME NEW t \in Tasks, TaskStep(t) PROVE Counted'
  <2>1. CASE StartTask(t)
    BY <2>1 DEF StartTask, TypeOK
  <2>2. CASE ToReview(t)
    BY <2>2 DEF ToReview, TypeOK, history
  <2>3. CASE Attempted(t)
    <3>1. total \in Nat /\ fixes \in Nat /\ MaxFixTotal \in Nat
      BY LimitAssumption DEF TypeOK
    <3>2. fixes' <= total' /\ fixes' <= MaxFixTotal
      BY <2>3, <3>1 DEF Attempted, AttemptOutcome
    <3>3. \A u \in Tasks : pc'[u] = "fix" => loops'[u] <= MaxFixPerTask
      BY <2>3 DEF Attempted, AttemptOutcome, TypeOK
    <3>. QED
      BY <3>2, <3>3
  <2>. QED
    BY <1>3, <2>1, <2>2, <2>3, TaskStepShape
<1>4. CASE Crash
  BY <1>4 DEF Crash, history
<1>5. CASE Resume
  BY <1>5, LimitAssumption DEF Resume
<1>. QED
  BY <1>1, <1>2, <1>3, <1>4, <1>5
     DEF Next, SchedulerStep, Stop, vars, task, history, OpenBatch, BatchReturned,
         RecordPassed, RecordFailed, NextBatch, Finish

----------------------------------------------------------------------------
(* The invariant, and what follows from it.                                *)

(* The inductive invariant holds in every reachable state. *)
LEMMA Invariance == Spec => []IInv
<1>1. Init => IInv
  <2>1. Init => TypeOK /\ SnapshotTaken
    BY TypeInit
  <2>2. Init => Dispatched
    BY DEF Init, Dispatched, Active, Awaiting
  <2>3. Init => Settled
    <3>1. \A j \in DOMAIN Batches : ~(j < 1)
      BY StructureAssumption
    <3>. QED
      BY <3>1 DEF Init, Settled
  <2>4. Init => Recorded
    BY DEF Init, Recorded, Checkpoint
  <2>5. Init => Counted
    BY LimitAssumption DEF Init, Counted
  <2>. QED
    BY <2>1, <2>2, <2>3, <2>4, <2>5 DEF IInv
<1>2. IInv /\ [Next]_vars => IInv'
  <2>1. SUFFICES ASSUME IInv, [Next]_vars PROVE IInv'
    OBVIOUS
  <2>2. TypeOK /\ SnapshotTaken /\ Dispatched /\ Settled /\ Recorded /\ Counted
    BY <2>1 DEF IInv
  <2>3. TypeOK' /\ SnapshotTaken'
    BY <2>1, <2>2, TypeNext DEF Dispatched
  <2>. QED
    BY <2>1, <2>2, <2>3, DispatchedNext, SettledNext, RecordedNext, CountedNext DEF IInv
<1>. QED
  BY <1>1, <1>2, PTL DEF Spec

(* Every variable keeps its type, and no task is repaired more often than  *)
(* the fail-fast threshold allows.                                         *)
THEOREM TypeCorrect == Spec => []TypeOK
<1>1. IInv => TypeOK
  BY DEF IInv
<1>. QED
  BY <1>1, Invariance, PTL

(* A task runs only when every task it depends on has completed, for every *)
(* plan the scheduler can be given and across every crash and resume.      *)
THEOREM RunsInOrder == Spec => []DependenciesFirst
<1>1. IInv => DependenciesFirst
  <2>1. SUFFICES ASSUME IInv, NEW t \in Tasks, Active(t), NEW d \in DependsOn[t]
                 PROVE  d \in completed
    BY DEF DependenciesFirst
  <2>2. phase = "chunk" /\ t \in ran /\ batch \in DOMAIN Batches /\ t \in Batches[batch]
    BY <2>1 DEF IInv, Dispatched
  <2>3. PICK j \in DOMAIN Batches : j < batch /\ d \in Batches[j]
    BY <2>2, ScheduleAssumption
  <2>4. d \in completed \cup failed \cup skipped
    BY <2>1, <2>2, <2>3 DEF IInv, Settled, Running
  <2>5. ~Unmet(t)
    BY <2>1, <2>2 DEF IInv, Dispatched
  <2>6. CASE ContinueOnFailure
    BY <2>1, <2>4, <2>5, <2>6 DEF Unmet
  <2>7. CASE ~ContinueOnFailure
    BY <2>1, <2>2, <2>4, <2>7 DEF IInv, Settled, Running
  <2>. QED
    BY <2>6, <2>7
<1>. QED
  BY <1>1, Invariance, PTL

(* No run executes a task the checkpoint lists as completed. *)
THEOREM CompletedNotRerun == Spec => []CompletedIsFinal
<1>1. IInv => CompletedIsFinal
  BY DEF IInv, CompletedIsFinal, Dispatched, Recorded, TypeOK
<1>. QED
  BY <1>1, Invariance, PTL

(* A checkpoint that says "completed" lists every task of the plan. *)
THEOREM CompletedMeansAll == Spec => []CompletedRunComplete
<1>1. IInv => CompletedRunComplete
  BY DEF IInv, CompletedRunComplete, Recorded
<1>. QED
  BY <1>1, Invariance, PTL

(* With continue_on_failure the checkpoint of an ended run lists every     *)
(* task that passed in it.                                                 *)
THEOREM PassedRecorded == ContinueOnFailure /\ Spec => []PassedIsRecorded
<1>1. ContinueOnFailure /\ IInv => PassedIsRecorded
  BY DEF IInv, PassedIsRecorded, Recorded, Dispatched
<1>2. ContinueOnFailure => []ContinueOnFailure
  OBVIOUS
<1>. QED
  BY <1>1, <1>2, Invariance, PTL

(* The fixer is asked at most max_fix_loops_total times in a run, and at   *)
(* most the smaller of its own limits for one task.                        *)
THEOREM FixesBounded == Spec => []FixBudget
<1>1. IInv => FixBudget
  BY LimitAssumption DEF IInv, FixBudget, Counted, TypeOK
<1>. QED
  BY <1>1, Invariance, PTL

(* The checkpoint never loses a completed task. *)
THEOREM CheckpointKept == Spec => CheckpointGrows
<1>1. IInv /\ [Next]_vars => [checkpoint.completed \subseteq checkpoint'.completed]_vars
  <2>1. SUFFICES ASSUME IInv, [Next]_vars, ~UNCHANGED vars
                 PROVE  checkpoint.completed \subseteq checkpoint'.completed
    OBVIOUS
  <2>2. checkpoint.completed = completed
    BY <2>1 DEF IInv, Recorded
  <2>3. CASE UNCHANGED checkpoint
    BY <2>3
  <2>4. CASE \E t \in Tasks : RecordPassed(t) \/ RecordFailed(t)
    BY <2>2, <2>4 DEF RecordPassed, RecordFailed, Checkpoint
  <2>5. CASE Finish \/ Resume
    BY <2>2, <2>5 DEF Finish, Resume, Restored, Checkpoint
  <2>6. ASSUME NEW t \in Tasks, TaskStep(t) PROVE UNCHANGED checkpoint
    BY <2>1, <2>6, TaskStepShape DEF IInv, outcome
  <2>. QED
    BY <2>1, <2>3, <2>4, <2>5, <2>6
       DEF Next, SchedulerStep, Stop, outcome, OpenBatch, OpenChunk, BatchReturned, NextBatch, Crash
<1>. QED
  BY <1>1, Invariance, PTL DEF Spec, CheckpointGrows

(* A task that fails leaves the workspace it started from, for any number  *)
(* of repairs, reverts and renewed snapshots.                              *)
THEOREM FailureUndone == Spec => FailedTaskUndone
<1>1. IInv /\ [Next]_vars => [\A t \in Tasks : Fails(t) => ws' = base[t]]_vars
  <2>1. SUFFICES ASSUME IInv, [Next]_vars, ~UNCHANGED vars, NEW t \in Tasks, Fails(t)
                 PROVE  ws' = base[t]
    OBVIOUS
  <2>2. PICK u \in Tasks : TaskStep(u)
    BY <2>1 DEF Fails, Next, SchedulerStep, Stop, OpenBatch, OpenChunk, BatchReturned,
                RecordPassed, RecordFailed, NextBatch, Finish, Crash, Resume, task
  <2>3. Attempted(u) /\ u = t
    BY <2>1, <2>2, TaskStepShape DEF IInv, Fails, StartTask, ToReview, TypeOK, Attempted,
                                     AttemptOutcome
  <2>4. ws' = snap[t]
    BY <2>1, <2>3 DEF Attempted, AttemptOutcome, IInv, Fails, TypeOK
  <2>. QED
    BY <2>1, <2>3, <2>4 DEF IInv, SnapshotTaken, Attempted
<1>. QED
  BY <1>1, Invariance, PTL DEF Spec, FailedTaskUndone

----------------------------------------------------------------------------
(* The points of a set of findings, a sum over the validators.             *)

(* A set of numbers has a least one.                                       *)
LEMMA LeastNumber ==
  ASSUME NEW T \in SUBSET Nat, T # {}
  PROVE  \E m \in T : \A k \in T : m <= k
<1>. DEFINE Less == {ss \in Nat \X Nat : ss[1] < ss[2]}
<1>1. IsWellFoundedOn(Less, Nat)
  BY NatLessThanWellFounded DEF OpToRel
<1>2. PICK m \in T : \A y \in T : ~ (<<y, m>> \in Less)
  BY <1>1, WFMin
<1>3. \A y \in T : ~ (y < m)
  BY <1>2
<1>. QED
  BY <1>3

(* h sums the points of r over the validators of each set of `sets`.       *)
Sums(h, sets, r) ==
  h = [s \in sets |->
         IF s = {} THEN 0
         ELSE LET v == CHOOSE v \in s : TRUE IN Weight[v] * r[v] + h[s \ {v}]]

LEMMA PenaltyIsSum ==
  ASSUME NEW r
  PROVE  Penalty(r) = (CHOOSE h : Sums(h, SUBSET Validators, r))[Validators]
BY DEF Penalty, MapThenSumSet, MapThenFoldSet, Sums

LEMMA SumExists ==
  ASSUME NEW r
  PROVE  \E h : Sums(h, SUBSET Validators, r)
<1>. DEFINE upTo(k) == {s \in SUBSET Validators : Cardinality(s) <= k}
            good(k) == \E h : Sums(h, upTo(k), r)
            bad == {k \in Nat : ~good(k)}
            n == Cardinality(Validators)
<1>1. \A s \in SUBSET Validators : IsFiniteSet(s) /\ Cardinality(s) \in Nat /\ Cardinality(s) <= n
  BY StructureAssumption, FS_Subset, FS_CardinalityType
<1>2. ASSUME NEW s \in SUBSET Validators, s # {}
      PROVE  LET v == CHOOSE v \in s : TRUE
             IN  s \ {v} \in SUBSET Validators /\ Cardinality(s \ {v}) = Cardinality(s) - 1
  BY <1>1, <1>2, FS_RemoveElement
<1>3. good(0)
  <2>. DEFINE h == [s \in upTo(0) |-> 0]
  <2>1. \A s \in upTo(0) : s = {}
    BY <1>1, FS_EmptySet
  <2>2. Sums(h, upTo(0), r)
    BY <2>1 DEF Sums
  <2>. QED
    BY <2>2
<1>4. ASSUME NEW k \in Nat, good(k)
      PROVE  good(k + 1)
  <2>1. PICK g : Sums(g, upTo(k), r)
    BY <1>4
  <2>. DEFINE h == [s \in upTo(k + 1) |->
                      IF s = {} THEN 0
                      ELSE LET v == CHOOSE v \in s : TRUE IN Weight[v] * r[v] + g[s \ {v}]]
  <2>2. ASSUME NEW s \in upTo(k + 1), s # {}
        PROVE  s \ {CHOOSE v \in s : TRUE} \in upTo(k)
    BY <1>1, <1>2, <2>2
  <2>3. \A s \in upTo(k) : s \in upTo(k + 1)
    BY <1>1
  <2>4. \A s \in upTo(k) : h[s] = g[s]
    BY <2>1, <2>3 DEF Sums
  <2>5. Sums(h, upTo(k + 1), r)
    <3>. DEFINE next(s) == IF s = {} THEN 0
                           ELSE LET v == CHOOSE v \in s : TRUE IN Weight[v] * r[v] + h[s \ {v}]
    <3>1. ASSUME NEW s \in upTo(k + 1)
          PROVE  h[s] = next(s)
      <4>1. CASE s = {}
        BY <4>1
      <4>2. CASE s # {}
        <5>. DEFINE v == CHOOSE v \in s : TRUE
        <5>1. s \ {v} \in upTo(k)
          BY <2>2, <4>2
        <5>2. h[s \ {v}] = g[s \ {v}]
          BY <2>4, <5>1
        <5>3. h[s] = Weight[v] * r[v] + g[s \ {v}]
          BY <4>2
        <5>. HIDE DEF h
        <5>. QED
          BY <4>2, <5>2, <5>3
      <4>. QED
        BY <4>1, <4>2
    <3>2. h = [s \in upTo(k + 1) |-> h[s]]
      OBVIOUS
    <3>. HIDE DEF h, upTo
    <3>3. h = [s \in upTo(k + 1) |-> next(s)]
      BY <3>1, <3>2
    <3>. QED
      BY <3>3 DEF Sums
  <2>. QED
    BY <2>5
<1>5. bad = {}
  <2>1. SUFFICES ASSUME bad # {}
                 PROVE  FALSE
    OBVIOUS
  <2>2. PICK m \in bad : \A k \in bad : m <= k
    BY <2>1, LeastNumber
  <2>. HIDE DEF good
  <2>3. m # 0 /\ m - 1 \in Nat
    BY <1>3, <2>2
  <2>4. good(m - 1)
    BY <2>2, <2>3
  <2>. QED
    BY <1>4, <2>2, <2>3, <2>4
<1>6. good(n) /\ upTo(n) = SUBSET Validators
  <2>. HIDE DEF good
  <2>. QED
    BY <1>1, <1>5, StructureAssumption, FS_CardinalityType
<1>. QED
  BY <1>6

LEMMA SumBounds ==
  ASSUME NEW r \in Findings, NEW h, Sums(h, SUBSET Validators, r)
  PROVE  \A s \in SUBSET Validators :
           h[s] \in Nat /\ ((\A v \in s : r[v] = 0) => h[s] = 0)
<1>. DEFINE fine(s) == h[s] \in Nat /\ ((\A v \in s : r[v] = 0) => h[s] = 0)
            bad == {Cardinality(s) : s \in {s \in SUBSET Validators : ~fine(s)}}
<1>1. \A s \in SUBSET Validators : IsFiniteSet(s) /\ Cardinality(s) \in Nat
  BY StructureAssumption, FS_Subset, FS_CardinalityType
<1>2. SUFFICES ASSUME NEW z \in SUBSET Validators, ~fine(z)
               PROVE  FALSE
  OBVIOUS
<1>3. bad \in SUBSET Nat /\ bad # {}
  BY <1>1, <1>2
<1>4. PICK m \in bad : \A k \in bad : m <= k
  BY <1>3, LeastNumber
<1>. HIDE DEF fine
<1>5. PICK s \in SUBSET Validators : ~fine(s) /\ Cardinality(s) = m
  BY <1>4
<1>6. s # {}
  BY <1>5 DEF fine, Sums
<1>. DEFINE v == CHOOSE v \in s : TRUE
<1>7. v \in s /\ h[s] = Weight[v] * r[v] + h[s \ {v}]
  BY <1>6 DEF Sums
<1>. HIDE DEF v
<1>8. s \ {v} \in SUBSET Validators /\ Cardinality(s \ {v}) = Cardinality(s) - 1
  BY <1>1, <1>7, FS_RemoveElement
<1>9. fine(s \ {v})
  BY <1>1, <1>4, <1>5, <1>8
<1>10. v \in Validators /\ Weight[v] \in Nat /\ r[v] \in Nat
  BY <1>7, StructureAssumption, LimitAssumption DEF Findings
<1>11. Weight[v] * r[v] \in Nat /\ (r[v] = 0 => Weight[v] * r[v] = 0)
  BY <1>10
<1>12. fine(s)
  BY <1>7, <1>9, <1>11 DEF fine
<1>. QED
  BY <1>5, <1>12

(* A workspace without findings scores best.                               *)
LEMMA PenaltyBounds ==
  ASSUME NEW r \in Findings
  PROVE  Penalty(r) \in Nat /\ ((\A v \in Validators : r[v] = 0) => Penalty(r) = 0)
<1>. DEFINE h == CHOOSE h : Sums(h, SUBSET Validators, r)
<1>1. Sums(h, SUBSET Validators, r)
  BY SumExists
<1>. HIDE DEF h
<1>2. Penalty(r) = h[Validators]
  BY PenaltyIsSum DEF h
<1>. QED
  BY <1>1, <1>2, SumBounds

----------------------------------------------------------------------------
(* What a task that passed has validated.                                  *)

(* One coroutine at a time. *)
Sequential == MaxParallel = 1 \/ \A i \in DOMAIN Batches : \A t, u \in Batches[i] : t = u

(* A passing attempt is never reverted as a regression. *)
PassesStand ==
  \A before \in Findings \cup {None}, now \in Findings : Passing(now) => ~Regression(before, now)

LEMMA HardPassesStand ==
  ASSUME Soft = {}
  PROVE  PassesStand
<1>1. SUFFICES ASSUME NEW before \in Findings \cup {None}, NEW now \in Findings,
                      Passing(now), Regression(before, now)
               PROVE  FALSE
  BY DEF PassesStand
<1>2. Penalty(now) = 0
  <2>1. \A v \in Validators : now[v] = 0
    BY <1>1 DEF Passing
  <2>. QED
    BY <2>1, PenaltyBounds
<1>3. Penalty(before) \in Nat /\ Tolerance \in Nat
  BY <1>1, PenaltyBounds, LimitAssumption DEF Regression
<1>. QED
  BY <1>1, <1>2, <1>3 DEF Regression

Validated(t) == t \in completed \/ pc[t] = "passed"
Holds(w, t)  == \A f \in Private(t) : w[f] = accepted[t][f]

(* The workspace, and the snapshot a task may still roll back to, hold what *)
(* the tasks before it validated.                                           *)
WorkInv ==
  /\ \A t, u \in chunk : t = u
  /\ \A t \in Tasks : Validated(t) => Holds(ws, t)
  /\ \A t, u \in Tasks : Active(u) /\ Validated(t) => Holds(snap[u], t)

(* How an answer changes the workspace: only the files the task declares,  *)
(* or by the rollback to its snapshot.                                     *)
Answered(t, w) ==
  /\ Active(t) /\ UNCHANGED <<sched, outcome>>
  /\ w \in Workspace /\ \A f \in Files \ Declared[t] : w[f] = ws[f]
  /\ \/ /\ pc' = [pc EXCEPT ![t] = "passed"]
        /\ ws' = w /\ accepted' = [accepted EXCEPT ![t] = w]
        /\ snap' = [snap EXCEPT ![t] = None]
     \/ /\ \E s \in Awaiting \cup {"failed"} : pc' = [pc EXCEPT ![t] = s]
        /\ ws' \in {w, snap[t]} /\ UNCHANGED <<accepted, snap>>

LEMMA AttemptWork ==
  ASSUME TypeOK, SnapshotTaken, PassesStand, NEW t \in Tasks, Active(t),
         NEW w \in Workspace, \A f \in Files \ Declared[t] : w[f] = ws[f], Attempt(t, w)
  PROVE  Answered(t, w)
<1>1. PICK fresh \in Findings :
        LET now    == Merged(t, fresh)
            revert == Regression(rows[t], now)
            kept   == Kept(t, w, revert)
            before == Before(t, w, revert)
        IN  /\ IF Passing(now) THEN Pass(t, w, kept)
               ELSE GiveUp(t, before) \/ AskFixer(t, kept, before)
            /\ UNCHANGED <<sched, outcome, base>>
  BY DEF Attempt
<1>. DEFINE now    == Merged(t, fresh)
            revert == Regression(rows[t], now)
            kept   == Kept(t, w, revert)
            before == Before(t, w, revert)
<1>2. now \in Findings /\ rows[t] \in Findings \cup {None}
  BY MergedType DEF TypeOK
<1>3. kept \in {w, snap[t]} /\ before = snap[t] /\ (~revert => kept = w)
  BY DEF Kept, Before
<1>4. Passing(now) => ~revert
  BY <1>2 DEF PassesStand
<1>. HIDE DEF now, revert, kept, before
<1>5. \/ Pass(t, w, kept) /\ kept = w
      \/ GiveUp(t, before)
      \/ AskFixer(t, kept, before)
  BY <1>1, <1>3, <1>4 DEF now, revert, kept, before
<1>6. [snap EXCEPT ![t] = snap[t]] = snap
  BY DEF TypeOK
<1>. QED
  BY <1>1, <1>3, <1>5, <1>6 DEF Answered, Pass, GiveUp, AskFixer, Awaiting

LEMMA AnswerWork ==
  ASSUME TypeOK, SnapshotTaken, PassesStand, NEW t \in Tasks,
         ImplementReturns(t) \/ ReviewReturns(t) \/ FixReturns(t)
  PROVE  \E w : Answered(t, w)
<1>1. ASSUME NEW touched \in SUBSET Declared[t], NEW n \in Nat
      PROVE  /\ Applied(t, touched, n) \in Workspace
             /\ \A f \in Files \ Declared[t] : Applied(t, touched, n)[f] = ws[f]
  BY AppliedType DEF Applied
<1>2. CASE ImplementReturns(t)
  <2>1. PICK touched \in SUBSET Declared[t] :
          LET w == Applied(t, touched, 1)
          IN  IF Reviewer
              THEN /\ ws' = w
                   /\ pc' = [pc EXCEPT ![t] = "review"]
                   /\ UNCHANGED <<sched, outcome, snap, rows, loops, total, history>>
              ELSE Attempt(t, w)
    BY <1>2 DEF ImplementReturns
  <2>2. Active(t)
    BY <1>2 DEF ImplementReturns, Active, Awaiting
  <2>3. CASE Reviewer
    BY <1>1, <2>1, <2>2, <2>3 DEF Answered, Awaiting, history
  <2>4. CASE ~Reviewer
    BY <1>1, <2>1, <2>2, <2>4, AttemptWork
  <2>. QED
    BY <2>3, <2>4
<1>3. CASE ReviewReturns(t)
  <2>1. ws \in Workspace /\ Active(t) /\ Attempt(t, ws)
    BY <1>3 DEF ReviewReturns, TypeOK, Active, Awaiting
  <2>. QED
    BY <2>1, AttemptWork
<1>4. CASE FixReturns(t)
  <2>1. PICK touched \in SUBSET Declared[t] : Attempt(t, Applied(t, touched, loops[t] + 1))
    BY <1>4 DEF FixReturns
  <2>2. loops[t] + 1 \in Nat /\ Active(t)
    BY <1>4, LimitAssumption DEF TypeOK, FixReturns, Active, Awaiting
  <2>. QED
    BY <1>1, <2>1, <2>2, AttemptWork
<1>. QED
  BY <1>2, <1>3, <1>4

(* A set within the width of a sequential run has one member.              *)
LEMMA OneMember ==
  ASSUME NEW c \in SUBSET Tasks, Cardinality(c) <= 1, NEW t \in c, NEW u \in c
  PROVE  t = u
<1>1. IsFiniteSet(c) /\ Cardinality(c) \in Nat
  BY StructureAssumption, FS_Subset, FS_CardinalityType
<1>2. SUFFICES ASSUME t # u PROVE FALSE
  OBVIOUS
<1>3. Cardinality(c \ {t}) = Cardinality(c) - 1 /\ IsFiniteSet(c \ {t})
  BY <1>1, FS_RemoveElement
<1>4. Cardinality((c \ {t}) \ {u}) = Cardinality(c \ {t}) - 1 /\ IsFiniteSet((c \ {t}) \ {u})
  BY <1>2, <1>3, FS_RemoveElement
<1>. QED
  BY <1>1, <1>3, <1>4, FS_CardinalityType

LEMMA WorkNext ==
  ASSUME Sequential, PassesStand, IInv, WorkInv, [Next]_vars
  PROVE  WorkInv'
<1>0. TypeOK /\ SnapshotTaken /\ Dispatched /\ Recorded
  BY DEF IInv
<1>. USE DEF WorkInv, Validated, Holds
<1>1. CASE OpenBatch \/ BatchReturned \/ NextBatch \/ Finish
  BY <1>1 DEF OpenBatch, BatchReturned, NextBatch, Finish, outcome, task, history, Active
<1>2. CASE OpenChunk
  <2>1. PICK c \in SUBSET pending :
          /\ Cardinality(c) <= Width /\ chunk' = c
          /\ pc' = [t \in Tasks |-> IF t \in c THEN "queued" ELSE pc[t]]
    BY <1>2 DEF OpenChunk
  <2>2. \A t, u \in c : t = u
    <3>1. CASE MaxParallel = 1
      <4>1. Cardinality(c) <= 1 /\ c \in SUBSET Tasks
        BY <2>1, <3>1, <1>0 DEF Width, TypeOK
      <4>. QED
        BY <4>1, OneMember
    <3>2. CASE MaxParallel # 1
      BY <1>0, <1>2, <2>1, <3>2 DEF Sequential, Dispatched, OpenChunk
    <3>. QED
      BY <3>1, <3>2
  <2>3. \A t \in Tasks : (Validated(t)' => Validated(t)) /\ ~Active(t)'
    <3>1. \A t \in Tasks : ~Active(t)
      BY <1>0, <1>2 DEF OpenChunk, Ended, Dispatched, Active, Awaiting
    <3>. QED
      BY <1>2, <2>1, <3>1 DEF OpenChunk, outcome, Active, Awaiting
  <2>. QED
    BY <1>2, <2>1, <2>2, <2>3 DEF OpenChunk, history
<1>3. ASSUME NEW t \in Tasks, RecordPassed(t) \/ RecordFailed(t)
      PROVE  WorkInv'
  <2>1. UNCHANGED <<chunk, ws, snap, pc, accepted>>
    BY <1>3 DEF RecordPassed, RecordFailed, task, history
  <2>2. completed' = completed \/ (completed' = completed \cup {t} /\ pc[t] = "passed")
    BY <1>3 DEF RecordPassed, RecordFailed
  <2>. QED
    BY <2>1, <2>2 DEF Active
<1>4. ASSUME NEW t \in Tasks, StartTask(t)
      PROVE  WorkInv'
  <2>1. /\ snap' = [snap EXCEPT ![t] = ws] /\ pc' = [pc EXCEPT ![t] = "implement"]
        /\ UNCHANGED <<chunk, completed, ws, accepted>>
    BY <1>4 DEF StartTask, sched, outcome
  <2>2. \A u \in Tasks : Validated(u)' => Validated(u)
    BY <1>0, <2>1 DEF TypeOK
  <2>3. \A u \in Tasks : snap'[u] = IF u = t THEN ws ELSE snap[u]
    BY <1>0, <2>1 DEF TypeOK
  <2>4. \A u \in Tasks : Active(u)' => u = t \/ Active(u)
    BY <1>0, <2>1 DEF TypeOK, Active
  <2>. QED
    BY <2>1, <2>2, <2>3, <2>4
<1>5. ASSUME NEW t \in Tasks, NEW w, Answered(t, w)
      PROVE  WorkInv'
  <2>1. /\ Active(t) /\ t \in chunk /\ t \notin completed /\ pc[t] # "passed"
        /\ UNCHANGED <<chunk, completed>>
    BY <1>0, <1>5 DEF Answered, sched, outcome, Dispatched, Active, Awaiting
  <2>2. \A u \in Tasks : Active(u) => u = t
    BY <1>0, <2>1 DEF Dispatched
  <2>3. \A u \in Tasks : u # t => Private(u) \in SUBSET (Files \ Declared[t])
    BY StructureAssumption DEF Private
  <2>4. \A u \in Tasks : u # t /\ Validated(u) => \A f \in Private(u) : /\ w[f] = accepted[u][f]
                                                                        /\ snap[t][f] = accepted[u][f]
    BY <1>5, <2>1, <2>3 DEF Answered
  <2>5. \A u \in Tasks : u # t => pc'[u] = pc[u] /\ accepted'[u] = accepted[u] /\ snap'[u] = snap[u]
    BY <1>0, <1>5 DEF Answered, TypeOK
  <2>6. CASE pc' = [pc EXCEPT ![t] = "passed"]
    <3>1. ws' = w /\ accepted'[t] = w /\ \A u \in Tasks : ~Active(u)'
      BY <1>0, <1>5, <2>2, <2>6 DEF Answered, TypeOK, Active, Awaiting
    <3>. QED
      BY <2>1, <2>4, <2>5, <3>1
  <2>7. CASE pc' # [pc EXCEPT ![t] = "passed"]
    <3>1. ws' \in {w, snap[t]} /\ UNCHANGED <<accepted, snap>> /\ pc'[t] # "passed"
      BY <1>0, <1>5, <2>7 DEF Answered, TypeOK, Awaiting
    <3>2. \A u \in Tasks : Active(u)' => u = t
      BY <2>2, <2>5 DEF Active
    <3>. QED
      BY <2>1, <2>4, <2>5, <3>1, <3>2
  <2>. QED
    BY <2>6, <2>7
<1>6. ASSUME NEW t \in Tasks, TaskStep(t)
      PROVE  WorkInv'
  BY <1>0, <1>4, <1>5, <1>6, AnswerWork DEF TaskStep
<1>7. CASE Crash
  BY <1>0, <1>7 DEF Crash, outcome, history, Active, Awaiting
<1>8. CASE Resume
  BY <1>0, <1>8 DEF Resume, Restored, Recorded, Active, Awaiting
<1>9. CASE UNCHANGED vars
  BY <1>9 DEF vars, sched, outcome, task, history, Active
<1>. QED
  BY <1>1, <1>2, <1>3, <1>6, <1>7, <1>8, <1>9 DEF Next, SchedulerStep, Stop

(* Where tasks run one at a time and every validator can fail a task, what *)
(* the passing attempt of a completed task validated stays, whatever later *)
(* tasks repair, revert and roll back, and wherever a run dies.            *)
THEOREM AcceptedKept ==
  ASSUME Sequential, Soft = {}
  PROVE  Spec => []AcceptedWorkKept
<1>1. TypeOK /\ WorkInv => AcceptedWorkKept
  BY DEF WorkInv, AcceptedWorkKept, Validated, Holds, TypeOK
<1>2. Init => WorkInv
  BY DEF Init, WorkInv, Validated, Active, Awaiting
<1>3. IInv /\ WorkInv /\ [Next]_vars => WorkInv'
  BY HardPassesStand, WorkNext
<1>4. IInv => TypeOK
  BY DEF IInv
<1>. QED
  BY <1>1, <1>2, <1>3, <1>4, Invariance, PTL DEF Spec
=============================================================================
