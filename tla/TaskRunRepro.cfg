\* Behaviours of TaskRun that contradict a reading of the code. TLC stops at the
\* first property that is violated, so one row is checked at a time; the settings
\* below are those of the first row, and a row names the ones it changes.
\* INVARIANT AcceptedWorkKept          (as below)
\* INVARIANT PassedIsRecorded          ContinueOnFailure = FALSE
\* PROPERTY StopsAtFirstFailure        ContinueOnFailure = FALSE, GlobalTasks = {t1}
\* PROPERTY RegressionIsRetried        Tasks = {t1}, Files = {f1}, MaxParallel = 1,
\*   Soft = {"mypy"}, MaxFindings = 2, MaxFixPerTask = 3, MaxFixTotal = 3,
\*   FailFast = 3
\* PROPERTY RegressionRestoresPreFix   the same with Files = {f1, f3},
\*   Declared <- TwoFiles and Soft = {}
SPECIFICATION Spec
CONSTANTS
  t1 = t1
  t2 = t2
  t3 = t3
  f1 = f1
  f2 = f2
  f3 = f3
  None = None
  Tasks = {t1, t2}
  Files = {f1, f2}
  Declared <- OwnFile
  DependsOn <- NoDeps
  Batches <- OneBatch
  Order <- OrderDef
  GlobalTasks = {}
  MaxParallel = 2
  Validators <- ValidatorsDef
  Soft = {}
  Blocking <- BlockingDef
  Weight <- WeightDef
  Tolerance = 1
  MaxFindings = 1
  MaxFixPerTask = 1
  MaxFixTotal = 1
  FailFast = 1
  TimeBudget = FALSE
  Reviewer = FALSE
  ContinueOnFailure = TRUE
  MaxRuns = 1
INVARIANTS
  AcceptedWorkKept
